---- MODULE Spec2Model ----
(***************************************************************************)
(* Worker pool, durable task queue and queue dispatcher of the             *)
(* media-upload-system repository (worker/pool.go, storage/queue.go).      *)
(*                                                                         *)
(* Time is counted in clock units of 30 minutes; the clock of the process  *)
(* and the clock of the datastore are taken to read the same zone.         *)
(***************************************************************************)
EXTENDS Integers, Sequences, FiniteSets, TLC

\* ------------------------------------------------------------------ bounds
MaxPoolWorkers == 2    \* largest maxWorkers in a process that is never killed
MaxJobs == 4           \* jobs submitted by callers outside the dispatcher
MaxWorkers == 1        \* largest maxWorkers in a process that may be killed
MaxTasks == 1          \* rows ever inserted into the queue table
MaxMaxAttempts == 2    \* largest max_attempts handed to AddToQueue
MaxAttemptsSeen == 3   \* attempts a row reaches when the store is called freely
MaxTime == 2           \* last reading of the clock
MaxRows == 2           \* rows ever inserted by a producer of several tasks
MaxDone == 4           \* jobs of outside callers that return; the others run on
MaxBurst == 102        \* AddTask calls of a producer that saturates the buffer
MaxMarkErrs == 1       \* failures of MarkQueueItemProcessing per row
MaxSeries == 103       \* rows inserted by a producer of a long series of tasks
MaxList == 103         \* longest list handed to RunParallelTasks
MaxShort == 3          \* longest of the short lists handed to RunParallelTasks
MaxEvents == 2         \* Download events received for one media
MaxParents == 2        \* upload jobs handed to the pool by the webhook handler
MaxUploaders == 2      \* enabled uploaders: children of one upload job

\* ------------------------------------------------------- program constants
BufferCap == 100       \* make(chan Task, 100)
StuckUnits == 1        \* time.Now().Add(-30 * time.Minute), in clock units
DayUnits == 48         \* time.Now().AddDate(0, 0, -days): one day in clock units
CleanupDays == 7       \* qm.db.CleanupOldCompletedItems(7)

NULL == -1             \* processed_at TIMESTAMP (nullable column)

MoreWorkers == IF MaxPoolWorkers > MaxWorkers THEN MaxPoolWorkers ELSE MaxWorkers
WorkerIds == 1..(MoreWorkers + 1)
TaskIds == 1..MaxTasks
Types == {"upload", "other"}
Payloads == {"p"}

\* QueueStatus
QueueStatusPending == "pending"
QueueStatusProcessing == "processing"
QueueStatusCompleted == "completed"
QueueStatusFailed == "failed"

\* A job in the channel: the closure AddTask was given. id = 0 is a job of a
\* caller outside the dispatcher, id > 0 the closure processNextTask builds
\* around the row it read.
ExternalJob == [id |-> 0, payload |-> "none"]
\* the same, handed over by a caller that was blocked on the full buffer
WaitedJob == [id |-> 0, payload |-> "waited"]
NoJob == [id |-> NULL, payload |-> "none"]
NoItem == [id |-> NULL, type |-> "none", payload |-> "none"]
\* no call of RunParallelTasks is under way; ran and swapped are observation:
\* how often each task of the list was executed, and whether a callback ran
\* before that of an earlier task
NoRun == [pc |-> "none", n |-> 0, i |-> 0, wg |-> 0, errors |-> <<>>, ran |-> <<>>,
          swapped |-> FALSE]
\* no upload record yet and no Download event under way
Events == 1..MaxEvents
NoEvents == [uploads |-> <<>>, h |-> [e \in Events |-> [pc |-> "none", id |-> 0]]]
\* a second QueueManager as NewQueueManager returns it
NoPeer == [isRunning |-> FALSE, qpc |-> "none", item |-> NoItem]

VARIABLES
    proc,          \* "up" | "down": the operating-system process
    fault,         \* why the process went down last: "none" | "job_panic" | "send_on_closed" |
                   \* "blocked_send_on_closed" | "close_of_closed" | "killed"
    crashed,       \* the process has gone down at least once
    web,           \* the uploads table (the records of one media, by id) and the
                   \* position of each Download event handled for that media
    \* ---- Pool
    maxWorkers,    \* Pool.maxWorkers
    tasks,         \* Pool.tasks: the buffered channel, oldest job first
    closed,        \* Pool.tasks has been closed
    wg,            \* Pool.wg: the WaitGroup counter
    activeCount,   \* Pool.activeCount
    wpc,           \* position of each worker goroutine
    wjob,          \* the job each worker holds
    stop,          \* position of the caller of Pool.Stop: "no" | "waiting" | "returned"
    blocked,       \* callers of AddTask blocked in p.tasks <- task on a full buffer
    rpt,           \* the call of Pool.RunParallelTasks under way: its position, the
                   \* list length, the loop index, its WaitGroup, its errors slice
    \* ---- Database (queue table)
    queue,         \* id -> row
    nextId,        \* AUTOINCREMENT sequence
    now,           \* CURRENT_TIMESTAMP / time.Now()
    \* ---- QueueManager
    isRunning,     \* QueueManager.isRunning
    handlers,      \* QueueManager.handlers: the registered types
    qpc,           \* position of processLoop: "none" | "wait" | "got" | "marked" | "stopped"
    item,          \* the row processNextTask read
    peer,          \* a second QueueManager built on the same db and pool:
                   \* its isRunning, the position of its processLoop, its item
    \* ---- observation (not program state)
    accepted,      \* jobs of outside callers AddTask put into the channel
    executed,      \* jobs of outside callers whose task() returned
    panicked,      \* the workers whose job panicked
    atStop,        \* buffered and in-flight jobs when Stop closed the channel
    hist           \* per row: handler invocations, Processing -> Failed steps,
                   \* claims given up because MarkQueueItemProcessing failed

poolVars == <<maxWorkers, tasks, closed, wg, activeCount, wpc, wjob, stop, blocked, rpt>>
dbVars == <<queue, nextId, now>>
qmVars == <<isRunning, handlers, qpc, item, peer>>
obsVars == <<accepted, executed, panicked, atStop, hist>>
vars == <<proc, fault, crashed, web, poolVars, dbVars, qmVars, obsVars>>

\* ------------------------------------------------------------------ Pool

\* NewPool: the fields of a freshly constructed pool
NewPool ==
    /\ tasks = <<>>
    /\ closed = FALSE
    /\ wg = 0
    /\ activeCount = 0
    /\ wpc = [w \in WorkerIds |-> "none"]
    /\ wjob = [w \in WorkerIds |-> NoJob]
    /\ stop = "no"
    /\ blocked = 0

\* NewQueueManager (+ RegisterHandler at startup)
NewQueueManager ==
    /\ isRunning = FALSE
    /\ handlers = {"upload"}
    /\ qpc = "none"
    /\ item = NoItem
    /\ peer = NoPeer

\* the goroutines Start's loop spawns: for i := 0; i < p.maxWorkers; i++
SpawnedOffByOne == 1..(maxWorkers + 1)
Spawned == 1..maxWorkers

\* jobs dequeued by a worker and not yet returned
Executing == {w \in WorkerIds : wpc[w] \in {"inc", "run"}}
\* workers that hold a job (until the loop body is over)
Holding == {w \in WorkerIds : wpc[w] \in {"inc", "run", "dec"}}

\* Pool.Start
Start ==
    /\ proc = "up"
    /\ stop = "no"
    /\ \A w \in WorkerIds : wpc[w] = "none"
    /\ wg' = wg + Cardinality(Spawned)
    /\ wpc' = [w \in WorkerIds |-> IF w \in Spawned THEN "recv" ELSE "none"]
    /\ UNCHANGED <<proc, fault, crashed, web, maxWorkers, rpt, blocked, tasks, closed, activeCount, wjob, stop,
                   dbVars, qmVars, obsVars>>

\* the process dies (a panic nobody recovers, or a kill): its memory is gone,
\* the queue table stays; what the next process constructs is put in place here
Die(why) ==
    /\ proc' = "down"
    /\ fault' = why
    /\ crashed' = TRUE
    /\ tasks' = <<>>
    /\ closed' = FALSE
    /\ wg' = 0
    /\ activeCount' = 0
    /\ wpc' = [w \in WorkerIds |-> "none"]
    /\ wjob' = [w \in WorkerIds |-> NoJob]
    /\ stop' = "no"
    /\ blocked' = 0
    /\ rpt' = NoRun
    /\ web' = web
    /\ isRunning' = FALSE
    /\ handlers' = handlers
    /\ qpc' = "none"
    /\ item' = NoItem
    /\ peer' = NoPeer

\* p.tasks <- task, by a caller outside the dispatcher, while the channel is
\* closed or has room; limit bounds the calls made
SubmitAfterClose(limit) ==
    /\ proc = "up"
    /\ accepted + blocked < limit
    /\ Len(tasks) < BufferCap
    /\ tasks' = Append(tasks, ExternalJob)
    /\ accepted' = accepted + 1
    /\ UNCHANGED <<proc, fault, crashed, web, maxWorkers, rpt, blocked, closed, wg, activeCount, wpc, wjob,
                   stop, dbVars, qmVars, executed, panicked, atStop, hist>>
Submit(limit) ==
    /\ proc = "up"
    /\ accepted + blocked < limit
    /\ \/ /\ closed                      \* send on a closed channel panics
          /\ Die("send_on_closed")
          /\ UNCHANGED <<maxWorkers, dbVars, obsVars>>
       \/ /\ ~closed
          /\ Len(tasks) < BufferCap      \* there is room: the send returns
          /\ tasks' = Append(tasks, ExternalJob)
          /\ accepted' = accepted + 1
          /\ UNCHANGED <<proc, fault, crashed, web, maxWorkers, rpt, blocked, closed, wg, activeCount, wpc, wjob,
                         stop, dbVars, qmVars, executed, panicked, atStop, hist>>

AddTask == Submit(MaxJobs)

\* Pool.AddTask by a producer that saturates the buffer
AddTaskMore == Submit(MaxBurst)

\* p.tasks <- task while the buffer is full: the sender blocks
AddTaskBlocks ==
    /\ proc = "up"
    /\ accepted + blocked < MaxBurst
    /\ ~closed
    /\ Len(tasks) = BufferCap
    /\ blocked' = blocked + 1
    /\ UNCHANGED <<proc, fault, crashed, web, maxWorkers, rpt, tasks, closed, wg, activeCount, wpc, wjob,
                   stop, dbVars, qmVars, obsVars>>

\* for task := range p.tasks  -- a job is received; if a sender is blocked on
\* the full buffer the runtime puts its job into the freed slot and wakes it
WorkerRecvDropsWaiter(w) ==
    /\ proc = "up"
    /\ wpc[w] = "recv"
    /\ tasks # <<>>
    /\ wjob' = [wjob EXCEPT ![w] = Head(tasks)]
    /\ tasks' = Tail(tasks)
    /\ blocked' = IF blocked > 0 THEN blocked - 1 ELSE blocked
    /\ wpc' = [wpc EXCEPT ![w] = "inc"]
    /\ UNCHANGED <<proc, fault, crashed, web, maxWorkers, rpt, closed, wg, activeCount, stop,
                   dbVars, qmVars, obsVars>>
WorkerRecv(w) ==
    /\ proc = "up"
    /\ wpc[w] = "recv"
    /\ tasks # <<>>
    /\ wjob' = [wjob EXCEPT ![w] = Head(tasks)]
    /\ tasks' = IF blocked > 0 THEN Append(Tail(tasks), WaitedJob) ELSE Tail(tasks)
    /\ blocked' = IF blocked > 0 THEN blocked - 1 ELSE blocked
    /\ accepted' = IF blocked > 0 THEN accepted + 1 ELSE accepted
    /\ wpc' = [wpc EXCEPT ![w] = "inc"]
    /\ UNCHANGED <<proc, fault, crashed, web, maxWorkers, rpt, closed, wg, activeCount, stop,
                   dbVars, qmVars, executed, panicked, atStop, hist>>

\* the range loop ends once the channel is closed and drained
RangeOverWhenIdle == tasks = <<>>
RangeOver == closed /\ tasks = <<>>

\* for task := range p.tasks  -- the loop ends; defer p.wg.Done()
WorkerExit(w) ==
    /\ proc = "up"
    /\ wpc[w] = "recv"
    /\ RangeOver
    /\ wpc' = [wpc EXCEPT ![w] = "exited"]
    /\ wg' = wg - 1
    /\ UNCHANGED <<proc, fault, crashed, web, maxWorkers, rpt, blocked, tasks, closed, activeCount, wjob, stop,
                   dbVars, qmVars, obsVars>>

\* Pool.GetActiveCount: p.mutex.Lock(); defer p.mutex.Unlock(); return p.activeCount
GetActiveCount == activeCount

\* the workers between their increment and their decrement of activeCount
Active == {w \in WorkerIds : wpc[w] \in {"run", "dec"}}

\* p.mutex.Lock(); p.activeCount++; p.mutex.Unlock(); then task() is entered
\* (without the mutex, workers that increment together write the same value)
WorkerIncUnlocked(w) ==
    /\ proc = "up"
    /\ wpc[w] = "inc"
    /\ activeCount' = activeCount + 1
    /\ wpc' = [v \in WorkerIds |-> IF wpc[v] = "inc" THEN "run" ELSE wpc[v]]
    /\ hist' = IF wjob[w].id \in DOMAIN hist
               THEN [hist EXCEPT ![wjob[w].id].invoked = @ + 1]
               ELSE hist
    /\ UNCHANGED <<proc, fault, crashed, web, maxWorkers, rpt, blocked, tasks, closed, wg, wjob, stop,
                   dbVars, qmVars, accepted, executed, panicked, atStop>>
WorkerInc(w) ==
    /\ proc = "up"
    /\ wpc[w] = "inc"
    /\ activeCount' = activeCount + 1
    /\ wpc' = [wpc EXCEPT ![w] = "run"]
    /\ hist' = IF wjob[w].id \in DOMAIN hist
               THEN [hist EXCEPT ![wjob[w].id].invoked = @ + 1]
               ELSE hist
    /\ UNCHANGED <<proc, fault, crashed, web, maxWorkers, rpt, blocked, tasks, closed, wg, wjob, stop,
                   dbVars, qmVars, accepted, executed, panicked, atStop>>

\* err := task() returns nil or an error, for a job of a caller outside the
\* dispatcher; the worker logs either and goes on
WorkerRunExternalRetries(w) ==
    /\ proc = "up"
    /\ wpc[w] = "run"
    /\ wjob[w].id = 0
    /\ executed < MaxDone
    /\ wpc' = [wpc EXCEPT ![w] = "dec"]
    /\ executed' = executed + 1
    /\ tasks' = IF ~closed /\ Len(tasks) < BufferCap THEN Append(tasks, wjob[w]) ELSE tasks
    /\ UNCHANGED <<proc, fault, crashed, web, maxWorkers, rpt, blocked, closed, wg, activeCount, wjob, stop,
                   dbVars, qmVars, accepted, panicked, atStop, hist>>
WorkerRunExternal(w) ==
    /\ proc = "up"
    /\ wpc[w] = "run"
    /\ wjob[w].id = 0
    /\ executed < MaxDone
    /\ wpc' = [wpc EXCEPT ![w] = "dec"]
    /\ executed' = executed + 1
    /\ UNCHANGED <<proc, fault, crashed, web, maxWorkers, rpt, blocked, tasks, closed, wg, activeCount, wjob, stop,
                   dbVars, qmVars, accepted, panicked, atStop, hist>>

\* task() panics: the worker loop has no recover(), the panic ends the process
WorkerPanic(w) ==
    /\ proc = "up"
    /\ wpc[w] = "run"
    /\ wjob[w].id = 0
    /\ panicked' = panicked \cup {w}
    /\ Die("job_panic")
    /\ UNCHANGED <<maxWorkers, dbVars, accepted, executed, atStop, hist>>

\* p.mutex.Lock(); p.activeCount--; p.mutex.Unlock(); log; next iteration
WorkerDec(w) ==
    /\ proc = "up"
    /\ wpc[w] = "dec"
    /\ activeCount' = activeCount - 1
    /\ wpc' = [wpc EXCEPT ![w] = "recv"]
    /\ wjob' = [wjob EXCEPT ![w] = NoJob]
    /\ UNCHANGED <<proc, fault, crashed, web, maxWorkers, rpt, blocked, tasks, closed, wg, stop,
                   dbVars, qmVars, obsVars>>

\* Pool.Stop: close(p.tasks); a sender blocked on the channel panics when it
\* is closed, and nobody recovers
StopClose ==
    /\ proc = "up"
    /\ stop = "no"
    /\ \E w \in WorkerIds : wpc[w] # "none"      \* the pool was started
    /\ atStop' = [buffered |-> Len(tasks), inflight |-> Cardinality(Executing),
                  executed |-> executed]
    /\ IF blocked > 0
       THEN /\ Die("blocked_send_on_closed")
            /\ UNCHANGED <<maxWorkers, dbVars, accepted, executed, panicked, hist>>
       ELSE /\ closed' = TRUE
            /\ stop' = "waiting"
            /\ UNCHANGED <<proc, fault, crashed, web, maxWorkers, rpt, blocked, tasks, wg, activeCount,
                           wpc, wjob, dbVars, qmVars, accepted, executed, panicked, hist>>

\* p.wg.Wait() is over
WaitOverAtOnce == TRUE
WaitOver == wg = 0

\* Pool.Stop: p.wg.Wait() returns
StopReturn ==
    /\ proc = "up"
    /\ stop = "waiting"
    /\ WaitOver
    /\ stop' = "returned"
    /\ UNCHANGED <<proc, fault, crashed, web, maxWorkers, rpt, blocked, tasks, closed, wg, activeCount, wpc, wjob,
                   dbVars, qmVars, obsVars>>

\* -------------------------------------------------------------- Database

Ids == DOMAIN queue

\* WHERE status = 'pending' OR (status = 'failed' AND attempts < max_attempts)
EligibleUpToMax(r) ==
    \/ r.status = QueueStatusPending
    \/ (r.status = QueueStatusFailed /\ r.attempts <= r.max_attempts)
EligibleWhileProcessing(r) ==
    \/ r.status \in {QueueStatusPending, QueueStatusProcessing}
    \/ (r.status = QueueStatusFailed /\ r.attempts < r.max_attempts)
Eligible(r) ==
    \/ r.status = QueueStatusPending
    \/ (r.status = QueueStatusFailed /\ r.attempts < r.max_attempts)

\* ORDER BY created_at ASC LIMIT 1: the rows the query may return (rows of
\* equal created_at come in an order the engine chooses)
NextCandidatesAnyOrder == {i \in Ids : Eligible(queue[i])}
NextCandidatesHeadOnly ==
    {i \in Ids : /\ Eligible(queue[i])
                 /\ \A j \in Ids : queue[i].created_at <= queue[j].created_at}
NextCandidates ==
    {i \in Ids : /\ Eligible(queue[i])
                 /\ \A j \in Ids : Eligible(queue[j]) => queue[i].created_at <= queue[j].created_at}

\* INSERT INTO queue (type, payload, status, max_attempts, updated_at)
NewRow(type, payload, maxAttempts) ==
    [type |-> type, payload |-> payload, status |-> QueueStatusPending, attempts |-> 0,
     max_attempts |-> maxAttempts, created_at |-> now, updated_at |-> now,
     processed_at |-> NULL]

\* UPDATE queue SET status = ?, updated_at = CURRENT_TIMESTAMP WHERE id = ?
UpdateQueueItemStatus(id, status) ==
    IF id \in Ids
    THEN [queue EXCEPT ![id].status = status, ![id].updated_at = now]
    ELSE queue

\* UPDATE queue SET status = 'processing', attempts = attempts + 1,
\*   updated_at = CURRENT_TIMESTAMP WHERE id = ?
MarkQueueItemProcessingIfEligible(id) ==
    IF id \in Ids /\ Eligible(queue[id])
    THEN [queue EXCEPT ![id].status = QueueStatusProcessing,
                       ![id].attempts = @ + 1,
                       ![id].updated_at = now]
    ELSE queue
MarkQueueItemProcessing(id) ==
    IF id \in Ids
    THEN [queue EXCEPT ![id].status = QueueStatusProcessing,
                       ![id].attempts = @ + 1,
                       ![id].updated_at = now]
    ELSE queue

\* UPDATE queue SET status = 'completed', processed_at = CURRENT_TIMESTAMP,
\*   updated_at = CURRENT_TIMESTAMP WHERE id = ?
MarkQueueItemCompletedNoStamp(id) ==
    IF id \in Ids
    THEN [queue EXCEPT ![id].status = QueueStatusCompleted, ![id].updated_at = now]
    ELSE queue
MarkQueueItemCompletedClearsAttempts(id) ==
    IF id \in Ids
    THEN [queue EXCEPT ![id].status = QueueStatusCompleted,
                       ![id].attempts = 0,
                       ![id].processed_at = now,
                       ![id].updated_at = now]
    ELSE queue
MarkQueueItemCompleted(id) ==
    IF id \in Ids
    THEN [queue EXCEPT ![id].status = QueueStatusCompleted,
                       ![id].processed_at = now,
                       ![id].updated_at = now]
    ELSE queue

\* UPDATE queue SET status = 'failed', updated_at = CURRENT_TIMESTAMP WHERE id = ?
MarkQueueItemFailedEveryRow(id) ==
    [i \in Ids |-> [queue[i] EXCEPT !.status = QueueStatusFailed, !.updated_at = now]]
MarkQueueItemFailed(id) ==
    IF id \in Ids
    THEN [queue EXCEPT ![id].status = QueueStatusFailed, ![id].updated_at = now]
    ELSE queue

\* WHERE status = 'processing' AND updated_at < thirtyMinutesAgo
StuckLate(r) == r.status = QueueStatusProcessing /\ r.updated_at < now - 2 * StuckUnits
Stuck(r) == r.status = QueueStatusProcessing /\ r.updated_at < now - StuckUnits

\* UPDATE queue SET status = 'pending' WHERE status = 'processing' AND updated_at < ?
ResetStuckQueueItemsFresh ==
    [i \in Ids |-> IF Stuck(queue[i])
                   THEN [queue[i] EXCEPT !.status = QueueStatusPending, !.attempts = 0]
                   ELSE queue[i]]
ResetStuckQueueItems ==
    [i \in Ids |-> IF Stuck(queue[i])
                   THEN [queue[i] EXCEPT !.status = QueueStatusPending]
                   ELSE queue[i]]

\* result.RowsAffected() of ResetStuckQueueItems
ResetCount == Cardinality({i \in Ids : Stuck(queue[i])})

\* WHERE status = 'completed' AND processed_at < cutoffDate (a NULL
\* processed_at compares as unknown: the row is kept)
OldCompletedAnyStatus(r, days) ==
    r.processed_at # NULL /\ r.processed_at < now - days * DayUnits
OldCompleted(r, days) ==
    /\ r.status = QueueStatusCompleted
    /\ r.processed_at # NULL
    /\ r.processed_at < now - days * DayUnits

\* DELETE FROM queue WHERE status = 'completed' AND processed_at < ?
CleanupOldCompletedItems(days) ==
    [i \in {j \in Ids : ~OldCompleted(queue[j], days)} |-> queue[i]]

\* result.RowsAffected() of CleanupOldCompletedItems
CleanupCount(days) == Cardinality({i \in Ids : OldCompleted(queue[i], days)})

NoHist == [invoked |-> 0, toFailed |-> 0, markErrs |-> 0]

\* hist after the table went from queue to q: the Processing -> Failed steps
Observe(q) ==
    [i \in DOMAIN hist |->
        IF i \in Ids /\ i \in DOMAIN q
           /\ queue[i].status = QueueStatusProcessing /\ q[i].status = QueueStatusFailed
        THEN [hist[i] EXCEPT !.toFailed = @ + 1]
        ELSE hist[i]]

\* Database.AddToQueue, the insert succeeds; limit bounds the rows ever inserted
EnqueueMaxRowid(limit) ==
    /\ proc = "up"
    /\ nextId <= limit
    /\ LET id == IF Ids = {} THEN 1 ELSE (CHOOSE i \in Ids : \A j \in Ids : j <= i) + 1
       IN  /\ \E type \in Types, payload \in Payloads, maxAttempts \in 1..MaxMaxAttempts :
                 queue' = [i \in Ids \cup {id} |->
                              IF i = id THEN NewRow(type, payload, maxAttempts) ELSE queue[i]]
           /\ hist' = [i \in DOMAIN hist \cup {id} |-> IF i = id THEN NoHist ELSE hist[i]]
    /\ nextId' = nextId + 1
    /\ UNCHANGED <<proc, fault, crashed, web, poolVars, now, qmVars, accepted, executed, panicked, atStop>>
Enqueue(limit) ==
    /\ proc = "up"
    /\ nextId <= limit
    /\ \E type \in Types, payload \in Payloads, maxAttempts \in 1..MaxMaxAttempts :
          queue' = [i \in Ids \cup {nextId} |->
                       IF i = nextId THEN NewRow(type, payload, maxAttempts) ELSE queue[i]]
    /\ hist' = [i \in DOMAIN hist \cup {nextId} |-> IF i = nextId THEN NoHist ELSE hist[i]]
    /\ nextId' = nextId + 1
    /\ UNCHANGED <<proc, fault, crashed, web, poolVars, now, qmVars, accepted, executed, panicked, atStop>>

AddToQueue == Enqueue(MaxTasks)

\* Database.AddToQueue fails (json.Marshal or the INSERT): (0, err), no row
AddToQueueErr ==
    /\ proc = "up"
    /\ UNCHANGED vars

\* Database.AddToQueue by a producer that inserts several rows
AddToQueueMore == Enqueue(MaxRows)

\* Database.AddToQueue by a producer of a long series of upload tasks that
\* adds the next one when the table holds none to hand out
AddToQueueSeries ==
    /\ proc = "up"
    /\ nextId <= MaxSeries
    /\ NextCandidates = {}
    /\ item = NoItem
    /\ queue' = [i \in Ids \cup {nextId} |->
                    IF i = nextId THEN NewRow("upload", "p", 1) ELSE queue[i]]
    /\ hist' = [i \in DOMAIN hist \cup {nextId} |-> IF i = nextId THEN NoHist ELSE hist[i]]
    /\ nextId' = nextId + 1
    /\ UNCHANGED <<proc, fault, crashed, web, poolVars, now, qmVars, accepted, executed, panicked, atStop>>

\* the clock advances by one unit
Tick ==
    /\ now < MaxTime
    /\ now' = now + 1
    /\ UNCHANGED <<proc, fault, crashed, web, poolVars, queue, nextId, qmVars, obsVars>>

\* ---------------------------------------------------------- QueueManager

\* QueueManager.Start on a manager that is not running: recovery succeeds
QMStart ==
    /\ proc = "up"
    /\ ~isRunning
    /\ qpc = "none"
    /\ \E w \in WorkerIds : wpc[w] # "none"    \* main starts the pool first
    /\ isRunning' = TRUE
    /\ queue' = ResetStuckQueueItems
    /\ qpc' = "wait"
    /\ UNCHANGED <<proc, fault, crashed, web, poolVars, nextId, now, handlers, peer, item, obsVars>>

\* QueueManager.Start, ResetStuckQueueItems returns an error (logged)
QMStartResetErr ==
    /\ proc = "up"
    /\ ~isRunning
    /\ qpc = "none"
    /\ \E w \in WorkerIds : wpc[w] # "none"    \* main starts the pool first
    /\ isRunning' = TRUE
    /\ qpc' = "wait"
    /\ UNCHANGED <<proc, fault, crashed, web, poolVars, dbVars, handlers, peer, item, obsVars>>

\* QueueManager.Start on a manager that is running: if qm.isRunning { return }
QMStartWhileRunningRecovers ==
    /\ proc = "up"
    /\ isRunning
    /\ queue' = ResetStuckQueueItems
    /\ UNCHANGED <<proc, fault, crashed, web, poolVars, nextId, now, qmVars, obsVars>>
QMStartWhileRunning ==
    /\ proc = "up"
    /\ isRunning
    /\ UNCHANGED vars

\* QueueManager.Stop on a running manager: isRunning = false; close(qm.stopChan);
\* qm.wg.Wait() returns when processLoop has seen the closed channel at its
\* select and returned. The pool and the jobs it holds are not touched.
QMStop ==
    /\ proc = "up"
    /\ isRunning
    /\ qpc = "wait"
    /\ isRunning' = FALSE
    /\ qpc' = "stopped"
    /\ UNCHANGED <<proc, fault, crashed, web, poolVars, dbVars, handlers, peer, item, obsVars>>

\* QueueManager.Start after Stop: recovery runs again; the new processLoop
\* finds stopChan closed at its first select and returns at once
QMStartAgain ==
    /\ proc = "up"
    /\ ~isRunning
    /\ qpc = "stopped"
    /\ isRunning' = TRUE
    /\ queue' = ResetStuckQueueItems
    /\ UNCHANGED <<proc, fault, crashed, web, poolVars, nextId, now, handlers, peer, qpc, item, obsVars>>

\* QueueManager.Stop a second time: close of a closed channel panics
QMStopAgain ==
    /\ proc = "up"
    /\ isRunning
    /\ qpc = "stopped"
    /\ Die("close_of_closed")
    /\ UNCHANGED <<maxWorkers, dbVars, obsVars>>

\* cleanupLoop: a tick of the cleanup ticker, qm.db.CleanupOldCompletedItems(7)
CleanupTick ==
    /\ proc = "up"
    /\ qpc \in {"wait", "got", "marked"}
    /\ queue' = CleanupOldCompletedItems(CleanupDays)
    /\ UNCHANGED <<proc, fault, crashed, web, poolVars, nextId, now, qmVars, obsVars>>

\* processNextTask: item, err := qm.db.GetNextQueueItem(), no error
PollGetNextClaims ==
    /\ proc = "up"
    /\ qpc = "wait"
    /\ \E i \in NextCandidates :
          /\ item' = [id |-> i, type |-> queue[i].type, payload |-> queue[i].payload]
          /\ queue' = MarkQueueItemProcessing(i)
    /\ qpc' = "got"
    /\ UNCHANGED <<proc, fault, crashed, web, poolVars, nextId, now, isRunning, handlers, peer, obsVars>>
PollGetNext ==
    /\ proc = "up"
    /\ qpc = "wait"
    /\ \/ /\ NextCandidates = {}              \* item == nil: nothing to do
          /\ UNCHANGED vars
       \/ /\ \E i \in NextCandidates :
                item' = [id |-> i, type |-> queue[i].type, payload |-> queue[i].payload]
          /\ qpc' = "got"
          /\ UNCHANGED <<proc, fault, crashed, web, poolVars, dbVars, isRunning, handlers, peer, obsVars>>

\* processNextTask: GetNextQueueItem returns an error, the tick is over
PollGetNextErr ==
    /\ proc = "up"
    /\ qpc = "wait"
    /\ UNCHANGED vars

\* processNextTask: qm.db.MarkQueueItemProcessing(item.ID), no error
PollMarkEveryEligible ==
    /\ proc = "up"
    /\ qpc = "got"
    /\ queue' = [i \in Ids |-> IF i = item.id \/ Eligible(queue[i])
                                THEN MarkQueueItemProcessing(i)[i]
                                ELSE queue[i]]
    /\ qpc' = "marked"
    /\ UNCHANGED <<proc, fault, crashed, web, poolVars, nextId, now, isRunning, handlers, peer, item, obsVars>>
PollMark ==
    /\ proc = "up"
    /\ qpc = "got"
    /\ queue' = MarkQueueItemProcessing(item.id)
    /\ qpc' = "marked"
    /\ UNCHANGED <<proc, fault, crashed, web, poolVars, nextId, now, isRunning, handlers, peer, item, obsVars>>

\* processNextTask: MarkQueueItemProcessing returns an error, the tick is over
PollMarkErrGoesOn ==
    /\ proc = "up"
    /\ qpc = "got"
    /\ hist[item.id].markErrs < MaxMarkErrs
    /\ hist' = [hist EXCEPT ![item.id].markErrs = @ + 1]
    /\ qpc' = "marked"
    /\ UNCHANGED <<proc, fault, crashed, web, poolVars, dbVars, isRunning, handlers, peer, item,
                   accepted, executed, panicked, atStop>>
PollMarkErr ==
    /\ proc = "up"
    /\ qpc = "got"
    /\ hist[item.id].markErrs < MaxMarkErrs
    /\ hist' = [hist EXCEPT ![item.id].markErrs = @ + 1]
    /\ qpc' = "wait"
    /\ item' = NoItem
    /\ UNCHANGED <<proc, fault, crashed, web, poolVars, dbVars, isRunning, handlers, peer,
                   accepted, executed, panicked, atStop>>

\* processNextTask: no handler for item.Type: qm.db.MarkQueueItemFailed(item.ID)
PollNoHandler ==
    /\ proc = "up"
    /\ qpc = "marked"
    /\ item.type \notin handlers
    /\ queue' = MarkQueueItemFailed(item.id)
    /\ hist' = Observe(MarkQueueItemFailed(item.id))
    /\ qpc' = "wait"
    /\ item' = NoItem
    /\ UNCHANGED <<proc, fault, crashed, web, poolVars, nextId, now, isRunning, handlers, peer,
                   accepted, executed, panicked, atStop>>

\* processNextTask: no handler, and MarkQueueItemFailed returns an error (ignored)
PollNoHandlerErr ==
    /\ proc = "up"
    /\ qpc = "marked"
    /\ item.type \notin handlers
    /\ qpc' = "wait"
    /\ item' = NoItem
    /\ UNCHANGED <<proc, fault, crashed, web, poolVars, dbVars, isRunning, handlers, peer, obsVars>>

\* processNextTask: qm.pool.AddTask(func() error {...})
PollSubmit ==
    /\ proc = "up"
    /\ qpc = "marked"
    /\ item.type \in handlers
    /\ ~closed
    /\ Len(tasks) < BufferCap                \* otherwise the poll loop blocks
    /\ tasks' = Append(tasks, [id |-> item.id, payload |-> item.payload])
    /\ qpc' = "wait"
    /\ item' = NoItem
    /\ UNCHANGED <<proc, fault, crashed, web, maxWorkers, rpt, blocked, closed, wg, activeCount, wpc, wjob, stop,
                   dbVars, isRunning, handlers, peer, obsVars>>

\* the job of processNextTask: handler returns an error, MarkQueueItemFailed succeeds
JobFailedAndQuit(w) ==
    /\ proc = "up"
    /\ wpc[w] = "run"
    /\ wjob[w].id > 0
    /\ queue' = MarkQueueItemFailed(wjob[w].id)
    /\ hist' = Observe(MarkQueueItemFailed(wjob[w].id))
    /\ wpc' = [wpc EXCEPT ![w] = "exited"]
    /\ wg' = wg - 1
    /\ UNCHANGED <<proc, fault, crashed, web, maxWorkers, rpt, blocked, tasks, closed, activeCount, wjob, stop,
                   nextId, now, qmVars, accepted, executed, panicked, atStop>>
JobFailed(w) ==
    /\ proc = "up"
    /\ wpc[w] = "run"
    /\ wjob[w].id > 0
    /\ queue' = MarkQueueItemFailed(wjob[w].id)
    /\ hist' = Observe(MarkQueueItemFailed(wjob[w].id))
    /\ wpc' = [wpc EXCEPT ![w] = "dec"]
    /\ UNCHANGED <<proc, fault, crashed, web, maxWorkers, rpt, blocked, tasks, closed, wg, activeCount, wjob, stop,
                   nextId, now, qmVars, accepted, executed, panicked, atStop>>

\* the job: handler returns an error, MarkQueueItemFailed returns an error (ignored)
JobFailedStoreErr(w) ==
    /\ proc = "up"
    /\ wpc[w] = "run"
    /\ wjob[w].id > 0
    /\ wpc' = [wpc EXCEPT ![w] = "dec"]
    /\ UNCHANGED <<proc, fault, crashed, web, maxWorkers, rpt, blocked, tasks, closed, wg, activeCount, wjob, stop,
                   dbVars, qmVars, obsVars>>

\* the job: handler returns nil, MarkQueueItemCompleted succeeds
JobCompletedMarksFailed(w) ==
    /\ proc = "up"
    /\ wpc[w] = "run"
    /\ wjob[w].id > 0
    /\ queue' = MarkQueueItemFailed(wjob[w].id)
    /\ hist' = Observe(MarkQueueItemFailed(wjob[w].id))
    /\ wpc' = [wpc EXCEPT ![w] = "dec"]
    /\ UNCHANGED <<proc, fault, crashed, web, maxWorkers, rpt, blocked, tasks, closed, wg, activeCount, wjob, stop,
                   nextId, now, qmVars, accepted, executed, panicked, atStop>>
JobCompleted(w) ==
    /\ proc = "up"
    /\ wpc[w] = "run"
    /\ wjob[w].id > 0
    /\ queue' = MarkQueueItemCompleted(wjob[w].id)
    /\ wpc' = [wpc EXCEPT ![w] = "dec"]
    /\ UNCHANGED <<proc, fault, crashed, web, maxWorkers, rpt, blocked, tasks, closed, wg, activeCount, wjob, stop,
                   nextId, now, qmVars, obsVars>>

\* the job: handler returns nil, MarkQueueItemCompleted returns an error
JobCompletedStoreErr(w) ==
    /\ proc = "up"
    /\ wpc[w] = "run"
    /\ wjob[w].id > 0
    /\ wpc' = [wpc EXCEPT ![w] = "dec"]
    /\ UNCHANGED <<proc, fault, crashed, web, maxWorkers, rpt, blocked, tasks, closed, wg, activeCount, wjob, stop,
                   dbVars, qmVars, obsVars>>

\* ------------------------------------------- a second QueueManager instance

\* QueueManager.Start of the second instance: recovery, then its processLoop
PeerStart ==
    /\ proc = "up"
    /\ ~peer.isRunning
    /\ peer.qpc = "none"
    /\ \E w \in WorkerIds : wpc[w] # "none"    \* main starts the pool first
    /\ queue' = ResetStuckQueueItems
    /\ peer' = [peer EXCEPT !.isRunning = TRUE, !.qpc = "wait"]
    /\ UNCHANGED <<proc, fault, crashed, web, poolVars, nextId, now, isRunning, handlers, qpc, item,
                   obsVars>>

\* processNextTask of the second instance: GetNextQueueItem, no error
PeerGetNext ==
    /\ proc = "up"
    /\ peer.qpc = "wait"
    /\ \/ /\ NextCandidates = {}              \* item == nil: nothing to do
          /\ UNCHANGED vars
       \/ /\ \E i \in NextCandidates :
                peer' = [peer EXCEPT !.qpc = "got",
                                     !.item = [id |-> i, type |-> queue[i].type,
                                               payload |-> queue[i].payload]]
          /\ UNCHANGED <<proc, fault, crashed, web, poolVars, dbVars, isRunning, handlers, qpc, item,
                         obsVars>>

\* processNextTask of the second instance: MarkQueueItemProcessing, no error
PeerMark ==
    /\ proc = "up"
    /\ peer.qpc = "got"
    /\ queue' = MarkQueueItemProcessing(peer.item.id)
    /\ peer' = [peer EXCEPT !.qpc = "marked"]
    /\ UNCHANGED <<proc, fault, crashed, web, poolVars, nextId, now, isRunning, handlers, qpc, item,
                   obsVars>>

\* processNextTask of the second instance: no handler for item.Type
PeerNoHandler ==
    /\ proc = "up"
    /\ peer.qpc = "marked"
    /\ peer.item.type \notin handlers
    /\ queue' = MarkQueueItemFailed(peer.item.id)
    /\ hist' = Observe(MarkQueueItemFailed(peer.item.id))
    /\ peer' = [peer EXCEPT !.qpc = "wait", !.item = NoItem]
    /\ UNCHANGED <<proc, fault, crashed, web, poolVars, nextId, now, isRunning, handlers, qpc, item,
                   accepted, executed, panicked, atStop>>

\* processNextTask of the second instance: qm.pool.AddTask(func() error {...})
PeerSubmit ==
    /\ proc = "up"
    /\ peer.qpc = "marked"
    /\ peer.item.type \in handlers
    /\ ~closed
    /\ Len(tasks) < BufferCap                \* otherwise the poll loop blocks
    /\ tasks' = Append(tasks, [id |-> peer.item.id, payload |-> peer.item.payload])
    /\ peer' = [peer EXCEPT !.qpc = "wait", !.item = NoItem]
    /\ UNCHANGED <<proc, fault, crashed, web, maxWorkers, rpt, blocked, closed, wg, activeCount, wpc, wjob, stop,
                   dbVars, isRunning, handlers, qpc, item, obsVars>>

\* ---------------------------------------------------------------- process

\* the process is killed (or a handler panics) at any point
Crash ==
    /\ proc = "up"
    /\ Die("killed")
    /\ UNCHANGED <<maxWorkers, dbVars, obsVars>>

\* the service is started again (monitor.sh)
Restart ==
    /\ proc = "down"
    /\ proc' = "up"
    /\ UNCHANGED <<fault, crashed, web, poolVars, dbVars, qmVars, obsVars>>

\* -------------------------------------------------------- specifications

InitObs ==
    /\ accepted = 0
    /\ executed = 0
    /\ panicked = {}
    /\ atStop = [buffered |-> 0, inflight |-> 0, executed |-> 0]
    /\ hist = <<>>

\* the process has constructed its pool and its queue manager, the table is empty
Constructed ==
    /\ proc = "up"
    /\ fault = "none"
    /\ crashed = FALSE
    /\ NewPool
    /\ rpt = NoRun
    /\ web = NoEvents
    /\ queue = <<>>
    /\ nextId = 1
    /\ now = 0
    /\ NewQueueManager
    /\ InitObs

InitPool == Constructed /\ maxWorkers \in 1..MaxPoolWorkers

Init == Constructed /\ maxWorkers \in 1..MaxWorkers

NextPool ==
    \/ Start
    \/ AddTask
    \/ \E w \in WorkerIds : WorkerRecv(w)
    \/ \E w \in WorkerIds : WorkerInc(w)
    \/ \E w \in WorkerIds : WorkerRunExternal(w)
    \/ \E w \in WorkerIds : WorkerPanic(w)
    \/ \E w \in WorkerIds : WorkerDec(w)
    \/ \E w \in WorkerIds : WorkerExit(w)
    \/ StopClose
    \/ StopReturn

\* the pool alone, used by callers outside the dispatcher
SpecPool == InitPool /\ [][NextPool]_vars

\* the scheduling of the runtime in a pool: Start is called, every goroutine
\* keeps running (the workers and the caller of Stop) and every job returns
PoolScheduling ==
    /\ WF_vars(Start)
    /\ \A w \in WorkerIds : WF_vars(WorkerRecv(w))
    /\ \A w \in WorkerIds : WF_vars(WorkerInc(w))
    /\ \A w \in WorkerIds : WF_vars(WorkerRunExternal(w))
    /\ \A w \in WorkerIds : WF_vars(WorkerDec(w))
    /\ \A w \in WorkerIds : WF_vars(WorkerExit(w))
    /\ WF_vars(StopReturn)

SpecPoolFair == InitPool /\ [][NextPool]_vars /\ PoolScheduling

\* ---- upload jobs (main.go): a job that runs on a worker, hands one job per
\* enabled uploader to the same pool and waits for them
\* the closure handleDownloadEvent submits; left = uploaders still to be served
ParentJob(k) == [id |-> 0, payload |-> "parent", left |-> k, sent |-> 0]
\* the closure processMovieUpload / processEpisodeUpload submits from worker w
ChildJob(w) == [id |-> 0, payload |-> "child", parent |-> w]

\* the worker is inside processMovieUpload / processEpisodeUpload
InUpload(w) == wpc[w] = "run" /\ wjob[w].payload = "parent"

\* the counter of the WaitGroup local to the upload job on worker w: children
\* submitted whose deferred wg.Done() has not run
IsChildOf(j, w) == j.payload = "child" /\ j.parent = w
Outstanding(w) ==
    Cardinality({i \in 1..Len(tasks) : IsChildOf(tasks[i], w)})
    + Cardinality({v \in Executing : IsChildOf(wjob[v], w)})

\* handleDownloadEvent: workerPool.AddTask(func() error { return processMovieUpload(...) })
SubmitUpload ==
    /\ proc = "up"
    /\ accepted < MaxParents
    /\ ~closed
    /\ Len(tasks) < BufferCap
    /\ \E k \in 0..MaxUploaders : tasks' = Append(tasks, ParentJob(k))
    /\ accepted' = accepted + 1
    /\ UNCHANGED <<proc, fault, crashed, web, maxWorkers, rpt, blocked, closed, wg, activeCount, wpc, wjob,
                   stop, dbVars, qmVars, executed, panicked, atStop, hist>>

\* db.UpdateUploadStatus fails: the upload job returns before any child
UploadStatusErr(w) ==
    /\ proc = "up"
    /\ InUpload(w)
    /\ wjob[w].sent = 0
    /\ wpc' = [wpc EXCEPT ![w] = "dec"]
    /\ executed' = executed + 1
    /\ UNCHANGED <<proc, fault, crashed, web, maxWorkers, rpt, blocked, tasks, closed, wg, activeCount, wjob,
                   stop, dbVars, qmVars, accepted, panicked, atStop, hist>>

\* wg.Add(1); workerPool.AddTask(func() error { defer wg.Done(); ... })
UploadAddTask(w) ==
    /\ proc = "up"
    /\ InUpload(w)
    /\ wjob[w].left > 0
    /\ ~closed
    /\ Len(tasks) < BufferCap
    /\ tasks' = Append(tasks, ChildJob(w))
    /\ wjob' = [wjob EXCEPT ![w].left = @ - 1, ![w].sent = @ + 1]
    /\ UNCHANGED <<proc, fault, crashed, web, maxWorkers, rpt, blocked, closed, wg, activeCount, wpc,
                   stop, dbVars, qmVars, obsVars>>

\* the child: the upload to one host returns (result or error); defer wg.Done()
ChildReturns(w) ==
    /\ proc = "up"
    /\ wpc[w] = "run"
    /\ wjob[w].payload = "child"
    /\ wpc' = [wpc EXCEPT ![w] = "dec"]
    /\ UNCHANGED <<proc, fault, crashed, web, maxWorkers, rpt, blocked, tasks, closed, wg, activeCount, wjob,
                   stop, dbVars, qmVars, obsVars>>

\* wg.Wait() returns and the upload job runs to its end
UploadWaitOver(w) == Outstanding(w) = 0
UploadReturns(w) ==
    /\ proc = "up"
    /\ InUpload(w)
    /\ wjob[w].left = 0
    /\ UploadWaitOver(w)
    /\ wpc' = [wpc EXCEPT ![w] = "dec"]
    /\ executed' = executed + 1
    /\ UNCHANGED <<proc, fault, crashed, web, maxWorkers, rpt, blocked, tasks, closed, wg, activeCount, wjob,
                   stop, dbVars, qmVars, accepted, panicked, atStop, hist>>

NextUploads ==
    \/ Start
    \/ SubmitUpload
    \/ \E w \in WorkerIds : WorkerRecv(w)
    \/ \E w \in WorkerIds : WorkerInc(w)
    \/ \E w \in WorkerIds : UploadStatusErr(w)
    \/ \E w \in WorkerIds : UploadAddTask(w)
    \/ \E w \in WorkerIds : ChildReturns(w)
    \/ \E w \in WorkerIds : UploadReturns(w)
    \/ \E w \in WorkerIds : WorkerDec(w)

\* every goroutine that can take a step takes it
UploadScheduling ==
    /\ WF_vars(Start)
    /\ \A w \in WorkerIds : WF_vars(WorkerRecv(w))
    /\ \A w \in WorkerIds : WF_vars(WorkerInc(w))
    /\ \A w \in WorkerIds : WF_vars(UploadAddTask(w))
    /\ \A w \in WorkerIds : WF_vars(ChildReturns(w))
    /\ \A w \in WorkerIds : WF_vars(UploadReturns(w))
    /\ \A w \in WorkerIds : WF_vars(WorkerDec(w))

SpecUploads == InitPool /\ [][NextUploads]_vars /\ UploadScheduling

\* ---- Pool.RunParallelTasks, called from outside the pool

\* the lengths of the lists handed to RunParallelTasks: the short lists on
\* every pool, the long one on the pool of one worker
ListLens == {n \in 0..MaxList : n <= MaxShort \/ (n = MaxList /\ maxWorkers = 1)}

\* what the k-th task of the list returns: nil (0) or an error of its own
TaskResult(k) == IF k % 2 = 0 THEN 0 ELSE k

\* the closure AddTaskWithCallback puts into the channel for the k-th task
CallbackJob(k) == [id |-> 0, payload |-> "callback", index |-> k]

\* RunParallelTasks: var wg sync.WaitGroup; errors := make([]error, len(tasks))
RunParallelTasks ==
    /\ proc = "up"
    /\ rpt.pc = "none"
    /\ \E w \in WorkerIds : wpc[w] # "none"      \* the pool was started
    /\ \E n \in ListLens :
          rpt' = [pc |-> "loop", n |-> n, i |-> 0, wg |-> 0,
                  errors |-> [k \in 1..n |-> 0], ran |-> [k \in 1..n |-> 0],
                  swapped |-> FALSE]
    /\ UNCHANGED <<proc, fault, crashed, web, maxWorkers, tasks, closed, wg, activeCount, wpc, wjob,
                   stop, blocked, dbVars, qmVars, obsVars>>

\* for i, task := range tasks { wg.Add(1); taskIndex := i; p.AddTaskWithCallback(...) }
\* -- one iteration; the send waits while the buffer is full
RunAddTaskWithCallback ==
    /\ proc = "up"
    /\ rpt.pc = "loop"
    /\ rpt.i < rpt.n
    /\ ~closed
    /\ Len(tasks) < BufferCap
    /\ tasks' = Append(tasks, CallbackJob(rpt.i + 1))
    /\ rpt' = [rpt EXCEPT !.i = @ + 1, !.wg = @ + 1]
    /\ UNCHANGED <<proc, fault, crashed, web, maxWorkers, closed, wg, activeCount, wpc, wjob,
                   stop, blocked, dbVars, qmVars, obsVars>>

\* wg.Wait(); return errors
RunReturn ==
    /\ proc = "up"
    /\ rpt.pc = "loop"
    /\ rpt.i = rpt.n
    /\ rpt.wg = 0
    /\ rpt' = [rpt EXCEPT !.pc = "returned"]
    /\ UNCHANGED <<proc, fault, crashed, web, maxWorkers, tasks, closed, wg, activeCount, wpc, wjob,
                   stop, blocked, dbVars, qmVars, obsVars>>

\* the closure of AddTaskWithCallback: err := task()
WorkerRunTask(w) ==
    /\ proc = "up"
    /\ wpc[w] = "run"
    /\ wjob[w].payload = "callback"
    /\ rpt' = [rpt EXCEPT !.ran[wjob[w].index] = @ + 1]
    /\ wpc' = [wpc EXCEPT ![w] = "cb"]
    /\ UNCHANGED <<proc, fault, crashed, web, maxWorkers, tasks, closed, wg, activeCount, wjob,
                   stop, blocked, dbVars, qmVars, obsVars>>

\* a callback of an earlier task of the list has still to run on another worker
EarlierPending(w) ==
    \E v \in WorkerIds \ {w} :
        /\ wpc[v] \in {"inc", "run", "cb"}
        /\ wjob[v].payload = "callback"
        /\ wjob[v].index < wjob[w].index

\* the closure: callback(err), that is errors[taskIndex] = err; wg.Done(); return err
WorkerCallbackLoopIndex(w) ==
    /\ proc = "up"
    /\ wpc[w] = "cb"
    /\ rpt' = [rpt EXCEPT !.errors[rpt.i] = TaskResult(wjob[w].index),
                          !.wg = @ - 1,
                          !.swapped = @ \/ EarlierPending(w)]
    /\ wpc' = [wpc EXCEPT ![w] = "dec"]
    /\ UNCHANGED <<proc, fault, crashed, web, maxWorkers, tasks, closed, wg, activeCount, wjob,
                   stop, blocked, dbVars, qmVars, obsVars>>
WorkerCallback(w) ==
    /\ proc = "up"
    /\ wpc[w] = "cb"
    /\ rpt' = [rpt EXCEPT !.errors[wjob[w].index] = TaskResult(wjob[w].index),
                          !.wg = @ - 1,
                          !.swapped = @ \/ EarlierPending(w)]
    /\ wpc' = [wpc EXCEPT ![w] = "dec"]
    /\ UNCHANGED <<proc, fault, crashed, web, maxWorkers, tasks, closed, wg, activeCount, wjob,
                   stop, blocked, dbVars, qmVars, obsVars>>

NextRun ==
    \/ Start
    \/ RunParallelTasks
    \/ RunAddTaskWithCallback
    \/ RunReturn
    \/ \E w \in WorkerIds : WorkerRecv(w)
    \/ \E w \in WorkerIds : WorkerInc(w)
    \/ \E w \in WorkerIds : WorkerRunTask(w)
    \/ \E w \in WorkerIds : WorkerCallback(w)
    \/ \E w \in WorkerIds : WorkerDec(w)

\* a started pool and one caller of RunParallelTasks outside it
SpecRun == InitPool /\ [][NextRun]_vars

\* ---- Download events (main.go: handleDownloadEvent) for one media

\* upload_status
StatusPending == "pending"
StatusUploading == "uploading"
StatusCompleted == "completed"
StatusFailed == "failed"

\* the closure handleDownloadEvent hands to the pool for upload record u
UploadJob(u) == [id |-> 0, payload |-> "upload", upload |-> u]

\* Database.CheckExistingUpload: the latest record of the media, 0 for nil
CheckExistingUpload == Len(web.uploads)

\* handleDownloadEvent: existingUpload, err := db.CheckExistingUpload(...);
\* a completed record ends the handling, anything else goes on
DownloadCheck(e) ==
    /\ proc = "up"
    /\ \E w \in WorkerIds : wpc[w] # "none"      \* main starts the pool first
    /\ web.h[e].pc = "none"
    /\ LET existingUpload == CheckExistingUpload
       IN  web' = [web EXCEPT !.h[e].pc =
                      IF existingUpload # 0 /\ web.uploads[existingUpload] = StatusCompleted
                      THEN "done" ELSE "add"]
    /\ UNCHANGED <<proc, fault, crashed, poolVars, dbVars, qmVars, obsVars>>

\* handleDownloadEvent (movie): CheckExistingUpload returns an error, which is
\* logged; existingUpload is nil and the handling goes on
DownloadCheckErr(e) ==
    /\ proc = "up"
    /\ \E w \in WorkerIds : wpc[w] # "none"
    /\ web.h[e].pc = "none"
    /\ web' = [web EXCEPT !.h[e].pc = "add"]
    /\ UNCHANGED <<proc, fault, crashed, poolVars, dbVars, qmVars, obsVars>>

\* handleDownloadEvent: uploadID, err := db.AddUpload(newUpload), status pending
DownloadAddUpload(e) ==
    /\ proc = "up"
    /\ web.h[e].pc = "add"
    /\ web' = [web EXCEPT !.uploads = Append(@, StatusPending),
                          !.h[e] = [pc |-> "submit", id |-> Len(web.uploads) + 1]]
    /\ UNCHANGED <<proc, fault, crashed, poolVars, dbVars, qmVars, obsVars>>

\* handleDownloadEvent: AddUpload returns an error: logged, return
DownloadAddUploadErr(e) ==
    /\ proc = "up"
    /\ web.h[e].pc = "add"
    /\ web' = [web EXCEPT !.h[e].pc = "done"]
    /\ UNCHANGED <<proc, fault, crashed, poolVars, dbVars, qmVars, obsVars>>

\* handleDownloadEvent: workerPool.AddTask(func() error { return processMovieUpload(uploadID, ...) })
DownloadAddTask(e) ==
    /\ proc = "up"
    /\ web.h[e].pc = "submit"
    /\ ~closed
    /\ Len(tasks) < BufferCap
    /\ tasks' = Append(tasks, UploadJob(web.h[e].id))
    /\ web' = [web EXCEPT !.h[e].pc = "done"]
    /\ UNCHANGED <<proc, fault, crashed, maxWorkers, rpt, closed, wg, activeCount, wpc, wjob,
                   stop, blocked, dbVars, qmVars, obsVars>>

\* processMovieUpload: db.UpdateUploadStatus(uploadID, storage.StatusUploading)
UploadBegins(w) ==
    /\ proc = "up"
    /\ wpc[w] = "run"
    /\ wjob[w].payload = "upload"
    /\ web.uploads[wjob[w].upload] = StatusPending
    /\ web' = [web EXCEPT !.uploads[wjob[w].upload] = StatusUploading]
    /\ UNCHANGED <<proc, fault, crashed, poolVars, dbVars, qmVars, obsVars>>

\* processMovieUpload: the uploads are over; db.UpdateUploadStatus(uploadID,
\* completed) if one of them succeeded, failed otherwise; the job returns
UploadEnds(w) ==
    /\ proc = "up"
    /\ wpc[w] = "run"
    /\ wjob[w].payload = "upload"
    /\ web.uploads[wjob[w].upload] = StatusUploading
    /\ \E status \in {StatusCompleted, StatusFailed} :
          web' = [web EXCEPT !.uploads[wjob[w].upload] = status]
    /\ wpc' = [wpc EXCEPT ![w] = "dec"]
    /\ UNCHANGED <<proc, fault, crashed, maxWorkers, rpt, tasks, closed, wg, activeCount, wjob,
                   stop, blocked, dbVars, qmVars, obsVars>>

NextDownloads ==
    \/ Start
    \/ \E e \in Events : DownloadCheck(e)
    \/ \E e \in Events : DownloadCheckErr(e)
    \/ \E e \in Events : DownloadAddUpload(e)
    \/ \E e \in Events : DownloadAddUploadErr(e)
    \/ \E e \in Events : DownloadAddTask(e)
    \/ \E w \in WorkerIds : WorkerRecv(w)
    \/ \E w \in WorkerIds : WorkerInc(w)
    \/ \E w \in WorkerIds : UploadBegins(w)
    \/ \E w \in WorkerIds : UploadEnds(w)
    \/ \E w \in WorkerIds : WorkerDec(w)

\* a started pool and the Download events the HTTP server hands to
\* handleDownloadEvent, each in the goroutine of its request
SpecDownloads == InitPool /\ [][NextDownloads]_vars

\* the pool under a producer that fills the buffer, with jobs that run long
NextBuffer ==
    \/ Start
    \/ AddTaskMore
    \/ AddTaskBlocks
    \/ \E w \in WorkerIds : WorkerRecv(w)
    \/ \E w \in WorkerIds : WorkerInc(w)
    \/ \E w \in WorkerIds : WorkerRunExternal(w)
    \/ \E w \in WorkerIds : WorkerDec(w)
    \/ \E w \in WorkerIds : WorkerExit(w)
    \/ StopClose
    \/ StopReturn

SpecBuffer == Init /\ [][NextBuffer]_vars

\* pool, dispatcher and queue table with a healthy datastore
NextHealthy ==
    \/ Start
    \/ QMStart
    \/ AddToQueue
    \/ Tick
    \/ CleanupTick
    \/ PollGetNext
    \/ PollMark
    \/ PollNoHandler
    \/ PollSubmit
    \/ \E w \in WorkerIds : WorkerRecv(w)
    \/ \E w \in WorkerIds : WorkerInc(w)
    \/ \E w \in WorkerIds : JobFailed(w)
    \/ \E w \in WorkerIds : JobCompleted(w)
    \/ \E w \in WorkerIds : WorkerDec(w)
    \/ Crash
    \/ Restart

\* the datastore returns an error
NextStoreErr ==
    \/ AddToQueueErr
    \/ QMStartResetErr
    \/ PollGetNextErr
    \/ PollMarkErr
    \/ PollNoHandlerErr
    \/ \E w \in WorkerIds : JobFailedStoreErr(w)
    \/ \E w \in WorkerIds : JobCompletedStoreErr(w)

NextFaulty == NextHealthy \/ NextStoreErr

Next == NextHealthy

Spec == Init /\ [][Next]_vars

\* the same with a datastore that may return errors
SpecFaulty == Init /\ [][NextFaulty]_vars

\* one process that is never killed, with the scheduling the runtime gives:
\* the ticker keeps firing, goroutines keep running, every handler returns.
\* No timestamp decides anything in such a process (recovery runs once, in
\* Start, before any row is Processing, and cleanup looks seven days back),
\* so the clock is left where it is.
NextSteady ==
    \/ Start
    \/ QMStart
    \/ AddToQueue
    \/ CleanupTick
    \/ PollGetNext
    \/ PollMark
    \/ PollNoHandler
    \/ PollSubmit
    \/ \E w \in WorkerIds : WorkerRecv(w)
    \/ \E w \in WorkerIds : WorkerInc(w)
    \/ \E w \in WorkerIds : JobFailed(w)
    \/ \E w \in WorkerIds : JobCompleted(w)
    \/ \E w \in WorkerIds : WorkerDec(w)

Scheduling ==
    /\ WF_vars(Start)
    /\ WF_vars(QMStart)
    /\ WF_vars(PollGetNext)
    /\ WF_vars(PollMark)
    /\ WF_vars(PollNoHandler)
    /\ WF_vars(PollSubmit)
    /\ \A w \in WorkerIds : WF_vars(WorkerRecv(w))
    /\ \A w \in WorkerIds : WF_vars(WorkerInc(w))
    /\ \A w \in WorkerIds : WF_vars(JobFailed(w) \/ JobCompleted(w))
    /\ \A w \in WorkerIds : WF_vars(WorkerDec(w))

SteadySpec == InitPool /\ [][NextSteady]_vars /\ Scheduling

\* one process that is never killed, with a datastore that may return errors
NextSteadyFaulty == NextSteady \/ NextStoreErr

SpecSteadyFaulty == InitPool /\ [][NextSteadyFaulty]_vars

\* the same with the scheduling the runtime gives
FairSpecFaulty == InitPool /\ [][NextSteadyFaulty]_vars /\ Scheduling

\* one process that is never killed, a long series of tasks, and a datastore
\* that rejects the writes recording the outcome of a handler
NextSeries ==
    \/ Start
    \/ QMStart
    \/ AddToQueueSeries
    \/ PollGetNext
    \/ PollMark
    \/ PollSubmit
    \/ \E w \in WorkerIds : WorkerRecv(w)
    \/ \E w \in WorkerIds : WorkerInc(w)
    \/ \E w \in WorkerIds : JobFailedStoreErr(w)
    \/ \E w \in WorkerIds : JobCompletedStoreErr(w)
    \/ \E w \in WorkerIds : WorkerDec(w)

SpecSeries == Init /\ [][NextSeries]_vars

\* the process is killed once
CrashOnce == ~crashed /\ Crash

NextOneCrash == NextSteady \/ Tick \/ CrashOnce \/ Restart

\* one crash and the restart, with the same scheduling; a process that is
\* down is started again (monitor.sh)
FairSpec == Init /\ [][NextOneCrash]_vars /\ Scheduling /\ WF_vars(Restart)

\* one crash and the restart, with an owner that calls QueueManager.Start again
NextStartTwice == NextOneCrash \/ QMStartWhileRunning

SpecStartTwice == Init /\ [][NextStartTwice]_vars

\* one process that is never killed, a producer of several rows, and the clock
NextQueue ==
    \/ Start
    \/ QMStart
    \/ AddToQueueMore
    \/ Tick
    \/ CleanupTick
    \/ PollGetNext
    \/ PollMark
    \/ PollNoHandler
    \/ PollSubmit
    \/ \E w \in WorkerIds : WorkerRecv(w)
    \/ \E w \in WorkerIds : WorkerInc(w)
    \/ \E w \in WorkerIds : JobFailed(w)
    \/ \E w \in WorkerIds : JobCompleted(w)
    \/ \E w \in WorkerIds : WorkerDec(w)

SpecQueue == Init /\ [][NextQueue]_vars

\* the same with the scheduling the runtime gives
SpecQueueFair == Init /\ [][NextQueue]_vars /\ Scheduling

\* one process that is never killed, with two QueueManager instances on one
\* database and one pool
NextTwoDispatchers ==
    \/ NextSteady
    \/ PeerStart
    \/ PeerGetNext
    \/ PeerMark
    \/ PeerNoHandler
    \/ PeerSubmit

SpecTwoDispatchers == InitPool /\ [][NextTwoDispatchers]_vars

\* one process that is never killed, a producer of several rows that all
\* carry the same timestamp, and a datastore whose reads may fail
NextBatch ==
    \/ Start
    \/ QMStart
    \/ AddToQueueMore
    \/ PollGetNext
    \/ PollGetNextErr
    \/ PollMark
    \/ PollNoHandler
    \/ PollSubmit
    \/ \E w \in WorkerIds : WorkerRecv(w)
    \/ \E w \in WorkerIds : WorkerInc(w)
    \/ \E w \in WorkerIds : JobFailed(w)
    \/ \E w \in WorkerIds : JobCompleted(w)
    \/ \E w \in WorkerIds : WorkerDec(w)

SpecBatch == Init /\ [][NextBatch]_vars

\* one process whose queue manager is stopped and started again by its owner
NextLifecycle == NextSteady \/ Tick \/ QMStop \/ QMStartAgain \/ QMStopAgain \/ Restart

SpecLifecycle == Init /\ [][NextLifecycle]_vars

\* ------------------------------------------------ the store called freely

StoreUpdateQueueItemStatus ==
    /\ \E id \in Ids, status \in {QueueStatusPending, QueueStatusProcessing,
                                  QueueStatusCompleted, QueueStatusFailed} :
          queue' = UpdateQueueItemStatus(id, status)
    /\ UNCHANGED <<proc, fault, crashed, web, poolVars, nextId, now, qmVars, obsVars>>

StoreMarkQueueItemProcessing ==
    /\ \E id \in Ids :
          /\ queue[id].attempts < MaxAttemptsSeen
          /\ queue' = MarkQueueItemProcessing(id)
    /\ UNCHANGED <<proc, fault, crashed, web, poolVars, nextId, now, qmVars, obsVars>>

StoreMarkQueueItemCompleted ==
    /\ \E id \in Ids : queue' = MarkQueueItemCompleted(id)
    /\ UNCHANGED <<proc, fault, crashed, web, poolVars, nextId, now, qmVars, obsVars>>

StoreMarkQueueItemFailed ==
    /\ \E id \in Ids : queue' = MarkQueueItemFailed(id)
    /\ UNCHANGED <<proc, fault, crashed, web, poolVars, nextId, now, qmVars, obsVars>>

StoreResetStuckQueueItems ==
    /\ queue' = ResetStuckQueueItems
    /\ UNCHANGED <<proc, fault, crashed, web, poolVars, nextId, now, qmVars, obsVars>>

StoreCleanupOldCompletedItems ==
    /\ \E days \in {0, CleanupDays} : queue' = CleanupOldCompletedItems(days)
    /\ UNCHANGED <<proc, fault, crashed, web, poolVars, nextId, now, qmVars, obsVars>>

NextStore ==
    \/ AddToQueue
    \/ Tick
    \/ StoreUpdateQueueItemStatus
    \/ StoreMarkQueueItemProcessing
    \/ StoreMarkQueueItemCompleted
    \/ StoreMarkQueueItemFailed
    \/ StoreResetStuckQueueItems
    \/ StoreCleanupOldCompletedItems

SpecStore == Init /\ [][NextStore]_vars

\* the same on a table of several rows
NextStoreMore ==
    \/ AddToQueueMore
    \/ AddToQueueErr
    \/ Tick
    \/ StoreUpdateQueueItemStatus
    \/ StoreMarkQueueItemProcessing
    \/ StoreMarkQueueItemCompleted
    \/ StoreMarkQueueItemFailed
    \/ StoreResetStuckQueueItems
    \/ StoreCleanupOldCompletedItems

SpecStoreMore == Init /\ [][NextStoreMore]_vars

\* ================================================================== claims

\* a row that will not be claimed again: Failed with its attempts used up
Terminal(r) == r.status = QueueStatusFailed /\ r.attempts >= r.max_attempts

\* C1: in a started pool of maxWorkers = N, at most N jobs are executing
\* (dequeued by a worker and not yet returned) at any time.
C1_BoundedConcurrency == Cardinality(Executing) <= maxWorkers

\* C1 witness: the largest pool has all its workers executing while more
\* jobs wait in the buffer.
C1_Witness ==
    /\ maxWorkers = MaxPoolWorkers
    /\ Cardinality({w \in WorkerIds : wpc[w] = "run"}) = maxWorkers
    /\ tasks # <<>>

\* C2: when Stop has returned, every job AddTask accepted has been executed:
\* the buffer is empty, no worker holds a job, and the M buffered and N
\* in-flight jobs of the moment of Stop have all run since.
C2_GracefulDrain ==
    stop = "returned" =>
        /\ tasks = <<>>
        /\ Holding = {}
        /\ executed = accepted
        /\ executed = atStop.executed + atStop.buffered + atStop.inflight

\* C2 witness: Stop has returned after it was called with jobs buffered and
\* jobs in flight.
C2_Witness ==
    /\ stop = "returned"
    /\ atStop.buffered >= 1
    /\ atStop.inflight >= 1

\* C3: a job that panics leaves the process up and its worker in the loop,
\* ready for the next job.
C3_PanicContained ==
    \A w \in panicked : proc = "up" /\ wpc[w] \in {"recv", "inc", "run", "dec"}

\* C4 (state part): with no crash, a row of a registered type with
\* max_attempts = K has its handler invoked at most K times and goes
\* Processing -> Failed at most K times; once it is Failed with its attempts
\* used up both numbers are exactly K and GetNextQueueItem does not return it.
C4_AtMostK ==
    \A id \in Ids :
        queue[id].type \in handlers =>
            /\ queue[id].attempts <= queue[id].max_attempts
            /\ hist[id].invoked <= queue[id].max_attempts
            /\ hist[id].toFailed <= queue[id].max_attempts
            /\ Terminal(queue[id]) =>
                  /\ hist[id].invoked = queue[id].max_attempts
                  /\ hist[id].toFailed = queue[id].max_attempts
                  /\ id \notin NextCandidates

\* C4 (step part): a row that is Failed with its attempts used up never
\* changes again and is never read by the poll loop.
C4_StaysFailed ==
    \A id \in Ids :
        (queue[id].type \in handlers /\ Terminal(queue[id])) =>
            /\ queue'[id] = queue[id]
            /\ item'.id # id

\* C4 (progress part): a row of a registered type ends Failed with its
\* attempts used up, unless its handler succeeds.
C4_ReachesCeiling ==
    \A id \in TaskIds :
        (id \in Ids /\ queue[id].type \in handlers)
            ~> (id \in Ids /\ (Terminal(queue[id]) \/ queue[id].status = QueueStatusCompleted))

\* C4: a row with max_attempts = K whose handler always fails goes through
\* eligible -> Processing -> Failed exactly K times, with K handler
\* invocations, and then stays Failed and is never claimed again.
C4_RetryCeiling == []C4_AtMostK /\ [][C4_StaysFailed]_vars /\ C4_ReachesCeiling

\* C4 witness: a row with the largest max_attempts is Failed for good after
\* that many handler invocations.
C4_Witness ==
    \E id \in Ids :
        /\ queue[id].type \in handlers
        /\ queue[id].max_attempts = MaxMaxAttempts
        /\ Terminal(queue[id])
        /\ hist[id].invoked = MaxMaxAttempts

\* C5: every row has attempts <= max_attempts, in every reachable state.
C5_AttemptsCeiling == \A id \in Ids : queue[id].attempts <= queue[id].max_attempts

\* C6: every enqueued row eventually is Completed or Failed with its
\* attempts used up.
C6_EventuallyTerminal ==
    \A id \in TaskIds :
        (id \in Ids)
            ~> (id \in Ids /\ (Terminal(queue[id]) \/ queue[id].status = QueueStatusCompleted))

C8_NoHandlerTerminal ==
    \A id \in Ids : queue[id].type \notin handlers => queue[id].attempts <= 1

\* C9: processed_at is non-null if and only if status = Completed, after any
\* sequence of the store's status-changing operations.
C9_ProcessedIffCompleted ==
    \A id \in Ids :
        (queue[id].processed_at # NULL) <=> (queue[id].status = QueueStatusCompleted)

\* C10: every status change of a row sets its updated_at to the time of the
\* change.
C10_UpdatedAtRefreshed ==
    [][\A id \in Ids :
          (id \in DOMAIN queue' /\ queue'[id].status # queue[id].status)
              => queue'[id].updated_at = now']_vars

\* the status steps the lifecycle of a task allows
ForwardSteps ==
    {<<QueueStatusPending, QueueStatusProcessing>>,
     <<QueueStatusProcessing, QueueStatusCompleted>>,
     <<QueueStatusProcessing, QueueStatusFailed>>,
     <<QueueStatusFailed, QueueStatusProcessing>>,
     <<QueueStatusProcessing, QueueStatusPending>>}

\* C11: under the dispatcher and stuck-task recovery a row changes status
\* only by Pending -> Processing, Processing -> Completed, Processing ->
\* Failed, Failed -> Processing and Processing -> Pending; the last one is
\* taken by recovery (QueueManager.Start) only, and no step leaves Completed.
C11_ForwardOnly ==
    [][\A id \in Ids :
          (id \in DOMAIN queue' /\ queue'[id].status # queue[id].status) =>
              /\ <<queue[id].status, queue'[id].status>> \in ForwardSteps
              /\ queue[id].status # QueueStatusCompleted
              /\ (queue'[id].status = QueueStatusPending) => (~isRunning /\ isRunning')]_vars

\* C12: GetNextQueueItem returns a row only if it is eligible, returns none
\* exactly when no row is eligible, and the row it returns has the smallest
\* created_at of all eligible rows.
C12_FifoClaim ==
    [][(qpc = "wait") =>
          /\ (qpc' = "got") =>
                /\ item'.id \in Ids
                /\ \/ queue[item'.id].status = QueueStatusPending
                   \/ /\ queue[item'.id].status = QueueStatusFailed
                      /\ queue[item'.id].attempts < queue[item'.id].max_attempts
                /\ \A j \in Ids :
                      (\/ queue[j].status = QueueStatusPending
                       \/ /\ queue[j].status = QueueStatusFailed
                          /\ queue[j].attempts < queue[j].max_attempts)
                          => queue[item'.id].created_at <= queue[j].created_at
          /\ (\E j \in Ids :
                 \/ queue[j].status = QueueStatusPending
                 \/ /\ queue[j].status = QueueStatusFailed
                    /\ queue[j].attempts < queue[j].max_attempts)
                => (ENABLED (qpc' = "got" /\ PollGetNext))]_vars

\* C12 witness: the poll loop holds the older of two rows, read while the
\* older one was Failed with attempts left and the younger one Pending.
C12_Witness ==
    /\ qpc = "got"
    /\ \E j \in Ids :
          /\ j # item.id
          /\ queue[j].status = QueueStatusPending
          /\ queue[item.id].status = QueueStatusFailed
          /\ queue[item.id].created_at < queue[j].created_at

\* C13: after MarkQueueItemCompleted(id) the row is Completed with a non-null
\* processed_at, and CleanupOldCompletedItems(0) called at the same clock
\* reading deletes it.
C13_CompletedThenCleaned ==
    [][\A id \in Ids :
          (queue' = MarkQueueItemCompleted(id)) =>
              /\ queue'[id].status = QueueStatusCompleted
              /\ queue'[id].processed_at # NULL
              /\ queue'[id].processed_at < now' - 0 * DayUnits]_vars

\* C14: a row leaves the table only by CleanupOldCompletedItems: in a step
\* that removes rows, every removed row is Completed with processed_at older
\* than the cutoff of one retention period, and the rows that stay are not
\* changed; Pending, Processing and Failed rows are never removed.
C14_OnlyCleanupDeletes ==
    [][(Ids \ DOMAIN queue' # {}) =>
          /\ \E days \in {0, CleanupDays} :
                \A id \in Ids \ DOMAIN queue' :
                    /\ queue[id].status = QueueStatusCompleted
                    /\ queue[id].processed_at # NULL
                    /\ queue[id].processed_at < now - days * DayUnits
          /\ DOMAIN queue' \subseteq Ids
          /\ \A id \in DOMAIN queue' : queue'[id] = queue[id]]_vars

\* C14 witness: one row has been deleted while a Failed row whose
\* processed_at is older than the cutoff is still in the table.
C14_Witness ==
    /\ \E id \in DOMAIN hist : id \notin Ids
    /\ \E id \in Ids :
          /\ queue[id].status = QueueStatusFailed
          /\ queue[id].processed_at # NULL
          /\ queue[id].processed_at < now

\* C18: a step that inserts creates exactly one row, Pending with attempts 0,
\* a type and a max_attempts of the producer, under an id greater than every
\* id the store ever assigned (also the ids of deleted rows), and changes no
\* other row; an AddToQueue that fails leaves the table as it is.
C18_EnqueueFresh ==
    [][(DOMAIN queue' \ Ids # {}) =>
          \E id \in DOMAIN queue' \ Ids :
              /\ DOMAIN queue' = Ids \cup {id}
              /\ id \notin DOMAIN hist
              /\ \A j \in DOMAIN hist : j < id
              /\ queue'[id].status = QueueStatusPending
              /\ queue'[id].attempts = 0
              /\ queue'[id].type \in Types
              /\ queue'[id].max_attempts \in 1..MaxMaxAttempts
              /\ queue'[id].processed_at = NULL
              /\ \A j \in Ids : queue'[j] = queue[j]]_vars

\* C18 witness: a fresh row sits in a table whose first row has been deleted.
C18_Witness ==
    /\ 1 \notin Ids
    /\ \E id \in Ids :
          /\ id > 1
          /\ queue[id].status = QueueStatusPending
          /\ queue[id].attempts = 0
          /\ queue[id].created_at = now

\* C15 (state part): with no crash, a row of a registered type that has
\* failed j times is Pending with nothing counted, Processing with attempts
\* = j + 1 (the number of the invocation under way or about to start),
\* Failed with attempts = j, or Completed with attempts = j + 1 <=
\* max_attempts, as many handler invocations, a non-null processed_at, and
\* out of reach of GetNextQueueItem.
C15_StatusTrack ==
    \A id \in Ids :
        queue[id].type \in handlers =>
            /\ (queue[id].status = QueueStatusPending) =>
                  /\ queue[id].attempts = 0
                  /\ hist[id].toFailed = 0
                  /\ hist[id].invoked = 0
            /\ (queue[id].status = QueueStatusProcessing) =>
                  /\ queue[id].attempts = hist[id].toFailed + 1
                  /\ hist[id].invoked \in {queue[id].attempts - 1, queue[id].attempts}
                  /\ \A w \in WorkerIds :
                        (wpc[w] = "run" /\ wjob[w].id = id) => hist[id].invoked = queue[id].attempts
            /\ (queue[id].status = QueueStatusFailed) =>
                  /\ queue[id].attempts = hist[id].toFailed
                  /\ hist[id].invoked = queue[id].attempts
            /\ (queue[id].status = QueueStatusCompleted) =>
                  /\ queue[id].attempts = hist[id].toFailed + 1
                  /\ queue[id].attempts <= queue[id].max_attempts
                  /\ hist[id].invoked = queue[id].attempts
                  /\ queue[id].processed_at # NULL
                  /\ id \notin NextCandidates

\* C15 (step part): the status of such a row steps Pending -> Processing,
\* Processing -> Failed, Failed -> Processing or Processing -> Completed;
\* attempts grows by one on each step into Processing and on no other; a
\* Completed row never changes again and is never read by the poll loop.
C15_Steps ==
    \A id \in Ids :
        (queue[id].type \in handlers /\ id \in DOMAIN queue') =>
            /\ (queue'[id].status # queue[id].status) =>
                  <<queue[id].status, queue'[id].status>> \in
                      {<<QueueStatusPending, QueueStatusProcessing>>,
                       <<QueueStatusProcessing, QueueStatusFailed>>,
                       <<QueueStatusFailed, QueueStatusProcessing>>,
                       <<QueueStatusProcessing, QueueStatusCompleted>>}
            /\ queue'[id].attempts =
                  IF queue'[id].status # queue[id].status
                     /\ queue'[id].status = QueueStatusProcessing
                  THEN queue[id].attempts + 1
                  ELSE queue[id].attempts
            /\ (queue[id].status = QueueStatusCompleted) =>
                  /\ queue'[id] = queue[id]
                  /\ item'.id # id

\* C15: a row whose handler fails j < K times and then succeeds goes Pending,
\* j times (Processing, Failed), Processing, Completed, with attempts equal
\* to the invocation number at each Processing step, and ends Completed with
\* attempts = j + 1 and a non-null processed_at, never to be claimed again.
C15_FailThenSucceed == []C15_StatusTrack /\ [][C15_Steps]_vars

\* C15 witness: a row is Completed on its last allowed attempt, after
\* failing on every one before.
C15_Witness ==
    \E id \in Ids :
        /\ queue[id].type \in handlers
        /\ queue[id].status = QueueStatusCompleted
        /\ queue[id].max_attempts = MaxMaxAttempts
        /\ queue[id].attempts = MaxMaxAttempts
        /\ hist[id].toFailed = MaxMaxAttempts - 1
        /\ hist[id].toFailed >= 1

\* C16: once Stop has closed the channel no AddTask call enqueues a job or
\* blocks: the call faults at once, and so does a call that was blocked on
\* the full buffer when Stop closed the channel; neither job is ever
\* accepted or executed.
C16_Steps ==
    /\ closed => /\ accepted' = accepted
                 /\ blocked' = 0
                 /\ Len(tasks') <= Len(tasks)
    /\ (closed /\ AddTaskMore) => /\ proc' = "down"
                                  /\ fault' = "send_on_closed"
                                  /\ executed' = executed
    /\ (closed /\ proc = "up" /\ accepted + blocked < MaxBurst) => ENABLED AddTaskMore
    /\ (blocked > 0 /\ StopClose) => /\ proc' = "down"
                                     /\ fault' = "blocked_send_on_closed"
                                     /\ accepted' = accepted
                                     /\ executed' = executed
    /\ (proc = "down") => (executed' = executed /\ accepted' = accepted)

C16_ClosedRejects ==
    /\ [](closed => blocked = 0)
    /\ [](executed + Cardinality(Executing) + Len(tasks) <= accepted)
    /\ [][C16_Steps]_vars

\* C16 witness: Stop found a caller blocked on the full buffer, which faulted.
C16_Witness ==
    /\ fault = "blocked_send_on_closed"
    /\ atStop.buffered = BufferCap
    /\ proc = "down"

\* C17: AddTask returns at once, with the job in the buffer, whenever fewer
\* than 100 jobs are buffered; with 100 jobs buffered it blocks, and stays
\* blocked while the buffer is full; a blocked call ends, in a running
\* process, only by a worker dequeuing a job, and its job is then in the
\* buffer and accepted.
C17_Steps ==
    /\ (AddTaskMore /\ ~closed) => /\ Len(tasks) < BufferCap
                                   /\ tasks' = Append(tasks, ExternalJob)
                                   /\ blocked' = blocked
    /\ (proc = "up" /\ ~closed /\ Len(tasks) < BufferCap /\ accepted + blocked < MaxBurst)
           => ENABLED (AddTaskMore /\ accepted' = accepted + 1)
    /\ (blocked' > blocked) => /\ Len(tasks) = BufferCap
                              /\ tasks' = tasks
                              /\ accepted' = accepted
    /\ (blocked' < blocked /\ proc' = "up") =>
           /\ blocked' = blocked - 1
           /\ accepted' = accepted + 1
           /\ \E w \in WorkerIds : wpc[w] = "recv" /\ wpc'[w] = "inc" /\ wjob'[w] = Head(tasks)
           /\ Len(tasks') = BufferCap
           /\ tasks'[BufferCap] = WaitedJob

C17_BlocksWhenFull ==
    /\ [](blocked > 0 => (Len(tasks) = BufferCap /\ ~closed /\ proc = "up"))
    /\ [][C17_Steps]_vars

\* C17 witness: the job of a caller that was blocked sits in the last slot of
\* the buffer, no caller is blocked any more, and a worker executes the job
\* whose dequeue freed the slot.
C17_Witness ==
    /\ Len(tasks) = BufferCap
    /\ tasks[BufferCap] = WaitedJob
    /\ blocked = 0
    /\ \E w \in WorkerIds : wpc[w] = "run"

\* C19 (step part): the step in which a handler returns an error leaves the
\* process up, the worker in its loop, the poll loop and the job buffer as
\* they are, sets the row of the job to Failed and changes no other row.
C19_Steps ==
    \A w \in WorkerIds :
        JobFailed(w) =>
            /\ proc' = "up"
            /\ wpc'[w] = "dec"
            /\ \A v \in WorkerIds \ {w} : wpc'[v] = wpc[v] /\ wjob'[v] = wjob[v]
            /\ tasks' = tasks
            /\ closed' = closed
            /\ qpc' = qpc
            /\ item' = item
            /\ isRunning' = isRunning
            /\ wjob[w].id \in Ids => queue'[wjob[w].id].status = QueueStatusFailed
            /\ DOMAIN queue' = Ids
            /\ \A id \in Ids \ {wjob[w].id} : queue'[id] = queue[id]

\* C19 (state part): every worker the pool started stays in its loop, where
\* its next step is always possible once a job is there, and the poll loop
\* of a started manager can always take its next tick.
C19_KeepsGoing ==
    /\ proc = "up"
    /\ \A w \in WorkerIds : wpc[w] \in {"none", "recv", "inc", "run", "dec"}
    /\ \A w \in WorkerIds : (wpc[w] = "dec") => ENABLED WorkerDec(w)
    /\ \A w \in WorkerIds : (wpc[w] = "recv" /\ tasks # <<>>) => ENABLED WorkerRecv(w)
    /\ isRunning => qpc \in {"wait", "got", "marked"}
    /\ (qpc = "wait") => ENABLED PollGetNext

\* C19: a handler that returns an error stops neither its worker nor the
\* poll loop, and changes only the status of its own task, to Failed.
C19_ErrorContained == []C19_KeepsGoing /\ [][C19_Steps]_vars

\* C19 witness: after the handler of one row failed, the poll loop has read
\* a row again while a worker executes the job of another row.
C19_Witness ==
    \E id \in Ids, other \in Ids, w \in WorkerIds :
        /\ other # id
        /\ hist[id].toFailed >= 1
        /\ wpc[w] = "run"
        /\ wjob[w].id = other
        /\ hist[other].toFailed = 0
        /\ qpc = "got"

\* the dispatcher jobs of row id that are in the buffer or held by a worker
JobsOf(id) ==
    Cardinality({i \in 1..Len(tasks) : tasks[i].id = id})
        + Cardinality({w \in WorkerIds : wpc[w] \in {"inc", "run"} /\ wjob[w].id = id})

\* C20 (state part): a job of a row exists only after MarkQueueItemProcessing
\* succeeded for that claim: the row is Processing, its handler has been
\* invoked at most as often as the row was marked, and one job at most
\* exists per row; between two ticks the poll loop holds no row and its
\* next GetNextQueueItem is possible.
C20_MarkedFirst ==
    /\ \A id \in Ids :
          /\ hist[id].invoked <= queue[id].attempts
          /\ JobsOf(id) <= 1
          /\ (JobsOf(id) = 1) =>
                /\ queue[id].status = QueueStatusProcessing
                /\ queue[id].attempts >= 1
          /\ (\E i \in 1..Len(tasks) : tasks[i].id = id) =>
                hist[id].invoked < queue[id].attempts
    /\ (qpc = "wait") => (item = NoItem /\ ENABLED PollGetNext)

\* C20 (step part): the step in which MarkQueueItemProcessing fails submits
\* no job, invokes no handler, changes no row and takes the poll loop, still
\* running, back to the wait for its next tick.
C20_Steps ==
    PollMarkErr =>
        /\ tasks' = tasks
        /\ wpc' = wpc
        /\ wjob' = wjob
        /\ queue' = queue
        /\ \A id \in Ids : hist'[id].invoked = hist[id].invoked
        /\ proc' = "up"
        /\ isRunning' = isRunning
        /\ qpc' = "wait"
        /\ item' = NoItem

\* C20: a store error in GetNextQueueItem or MarkQueueItemProcessing ends the
\* tick with no job submitted and no handler invoked, the loop goes on with
\* a fresh GetNextQueueItem, and a handler runs only for a successful mark.
C20_StoreErrorAbortsTick == []C20_MarkedFirst /\ [][C20_Steps]_vars

\* C20 witness: a row whose first claim was given up because the mark failed
\* is executed on a later claim, with attempts counting that claim only.
C20_Witness ==
    \E id \in Ids, w \in WorkerIds :
        /\ hist[id].markErrs >= 1
        /\ wpc[w] = "run"
        /\ wjob[w].id = id
        /\ queue[id].attempts = 1
        /\ queue[id].status = QueueStatusProcessing

\* C21 (state part): every job AddTask accepted is in exactly one place: in
\* the buffer, with the one worker that dequeued it, or done; no job is
\* counted twice and, while the process lives, none is lost.
C21_OnePlace ==
    /\ executed + Cardinality(Executing) + Len(tasks) <= accepted
    /\ ~crashed => executed + Cardinality(Executing) + Len(tasks) = accepted
    /\ \A w \in WorkerIds : (wpc[w] \in {"inc", "run", "dec"}) <=> (wjob[w] # NoJob)

\* C21 (step part): a dequeue takes the oldest job out of the buffer and
\* gives it to one worker; the return of task(), with nil or an error, puts
\* nothing back into the buffer and ends that job; the worker then drops it.
C21_Steps ==
    /\ \A w \in WorkerIds :
          /\ WorkerRecv(w) => /\ wjob'[w] = Head(tasks)
                              /\ tasks' = Tail(tasks)
                              /\ \A v \in WorkerIds \ {w} : wjob'[v] = wjob[v]
          /\ WorkerRunExternal(w) => /\ tasks' = tasks
                                     /\ executed' = executed + 1
                                     /\ wpc'[w] = "dec"
          /\ WorkerDec(w) => /\ wjob'[w] = NoJob
                             /\ tasks' = tasks
                             /\ executed' = executed
    /\ (proc' = "up" /\ Len(tasks') > Len(tasks)) => accepted' = accepted + 1
    /\ executed' \in {executed, executed + 1}

\* C21 (progress part): a job AddTask accepted is executed, unless the
\* process dies first.
C21_AllRun ==
    \A k \in 1..MaxJobs : (accepted >= k) ~> (executed >= k \/ crashed)

\* C21: the pool executes every job AddTask accepted exactly once, on one
\* worker, whether task() returns nil or an error, and never runs a job again.
C21_ExactlyOnce == []C21_OnePlace /\ [][C21_Steps]_vars /\ C21_AllRun

\* C21 witness: every job of the largest batch has been executed with the
\* pool still open and the process alive.
C21_Witness ==
    /\ ~crashed
    /\ accepted = MaxJobs
    /\ executed = MaxJobs
    /\ stop = "no"
    /\ maxWorkers = MaxPoolWorkers

\* C22: with the ticker firing and the workers running, every Pending row of
\* a registered type is claimed and its handler invoked, whatever older rows
\* of an unregistered type or with a handler that keeps failing are in the
\* table.
C22_LaterTaskRuns ==
    \A id \in 1..MaxRows :
        (id \in Ids /\ queue[id].status = QueueStatusPending /\ queue[id].type \in handlers)
            ~> (id \in DOMAIN hist /\ hist[id].invoked >= 1)

\* C22 witness: the handler of a row has been invoked although an older row
\* of an unregistered type was in the way, which was claimed and failed until
\* its attempts were used up.
C22_Witness ==
    \E id \in Ids, later \in Ids :
        /\ queue[id].created_at < queue[later].created_at
        /\ queue[id].type \notin handlers
        /\ queue[id].max_attempts = MaxMaxAttempts
        /\ Terminal(queue[id])
        /\ queue[later].type \in handlers
        /\ hist[later].invoked >= 1
        /\ hist[later].invoked = queue[later].attempts

\* the claims of row id that were marked and whose handler is not yet
\* entered: held by a poll loop after its mark, buffered, or just dequeued
ClaimsAhead(id) ==
    (IF qpc = "marked" /\ item.id = id THEN 1 ELSE 0)
        + (IF peer.qpc = "marked" /\ peer.item.id = id THEN 1 ELSE 0)
        + Cardinality({i \in 1..Len(tasks) : tasks[i].id = id})
        + Cardinality({w \in WorkerIds : wpc[w] = "inc" /\ wjob[w].id = id})

\* C23 (state part): with two dispatcher instances, every read of a row is
\* followed by a mark that counts and by a handler invocation of its own:
\* attempts is the number of invocations made plus the marked claims still
\* ahead of their invocation, also when both instances hold the same row;
\* an instance that has read a row can always go on to mark it.
C23_EveryReadRuns ==
    /\ \A id \in Ids :
          queue[id].type \in handlers =>
              queue[id].attempts = hist[id].invoked + ClaimsAhead(id)
    /\ (qpc = "got") => ENABLED PollMark
    /\ (peer.qpc = "got") => ENABLED PeerMark

\* C23 (step part): MarkQueueItemProcessing of either instance increments
\* attempts and sets Processing whatever the row's status is at that moment,
\* and leaves the other instance, which may hold the same row, as it is.
C23_Steps ==
    /\ PollMark => /\ queue'[item.id].attempts = queue[item.id].attempts + 1
                   /\ queue'[item.id].status = QueueStatusProcessing
                   /\ peer' = peer
    /\ PeerMark => /\ queue'[peer.item.id].attempts = queue[peer.item.id].attempts + 1
                   /\ queue'[peer.item.id].status = QueueStatusProcessing
                   /\ qpc' = qpc
                   /\ item' = item

\* C23: two dispatcher instances on one store can both read the same
\* eligible row before either marks it; both marks then count and both
\* handlers run, at the same time.
C23_ClaimThenMarkRace == []C23_EveryReadRuns /\ [][C23_Steps]_vars

\* C23 witness: two workers run the handler of the same row at the same
\* time; the row allowed one attempt, never failed, and counts two attempts.
C23_Witness ==
    \E id \in Ids, w \in WorkerIds, v \in WorkerIds :
        /\ w # v
        /\ wpc[w] = "run" /\ wjob[w].id = id
        /\ wpc[v] = "run" /\ wjob[v].id = id
        /\ queue[id].max_attempts = 1
        /\ queue[id].attempts = 2
        /\ hist[id].toFailed = 0
        /\ hist[id].invoked = 2
        /\ queue[id].status = QueueStatusProcessing

\* C24 (state part): for every row, the jobs of the row that are buffered or
\* executing and the claim the poll loop holds on it (read, or read and
\* marked, and not yet submitted) are one at most together.
C24_OneAtATime ==
    \A id \in Ids :
        JobsOf(id) + (IF qpc \in {"got", "marked"} /\ item.id = id THEN 1 ELSE 0) <= 1

\* C24 (step part): the poll loop reads and marks a row only while no job of
\* that row is buffered or executing, and a handler is entered only while no
\* other worker executes the handler of the same row.
C24_Steps ==
    /\ (qpc = "wait" /\ qpc' = "got") => JobsOf(item'.id) = 0
    /\ PollMark => JobsOf(item.id) = 0
    /\ \A w \in WorkerIds :
          (WorkerInc(w) /\ wjob[w].id > 0) =>
              \A v \in WorkerIds \ {w} : ~(wpc[v] \in {"inc", "run"} /\ wjob[v].id = wjob[w].id)

\* C24: with one dispatcher instance in one process, at most one handler
\* invocation per row is in progress at any time, and a row is not claimed
\* again while a job of it is buffered or executing.
C24_SingleInvocation == []C24_OneAtATime /\ [][C24_Steps]_vars

\* C24 witness: the next job of a row is already buffered while the worker
\* that ran its previous handler, which failed, has not yet finished the
\* loop body.
C24_Witness ==
    \E id \in Ids, w \in WorkerIds :
        /\ wpc[w] = "dec"
        /\ wjob[w].id = id
        /\ \E i \in 1..Len(tasks) : tasks[i].id = id
        /\ queue[id].attempts = 2
        /\ queue[id].status = QueueStatusProcessing

\* the rows that are Processing after a step and were not before it
NewlyProcessing ==
    {id \in Ids : id \in DOMAIN queue' /\ queue'[id].status = QueueStatusProcessing
                  /\ queue[id].status # QueueStatusProcessing}

\* C25 (step part): a tick goes wait -> read -> marked -> wait, each position
\* once; its read takes one row and changes nothing; its mark changes the
\* row read and no other; its submit, or the missing handler, ends the tick
\* with one job more in the buffer, or none; no step makes more than one row
\* Processing or adds more than one job; with no eligible row, and when the
\* read fails, the tick is over at once with nothing changed.
C25_Steps ==
    /\ <<qpc, qpc'>> \in {<<"none", "none">>, <<"none", "wait">>, <<"wait", "wait">>,
                          <<"wait", "got">>, <<"got", "got">>, <<"got", "marked">>,
                          <<"marked", "marked">>, <<"marked", "wait">>}
    /\ Cardinality(NewlyProcessing) <= 1
    /\ Len(tasks') <= Len(tasks) + 1
    /\ (qpc = "wait" /\ qpc' = "got") => /\ item'.id \in Ids
                                         /\ queue' = queue
                                         /\ tasks' = tasks
    /\ (qpc = "got" /\ qpc' = "marked") => /\ NewlyProcessing \subseteq {item.id}
                                           /\ \A id \in Ids \ {item.id} : queue'[id] = queue[id]
                                           /\ queue'[item.id].attempts = queue[item.id].attempts + 1
                                           /\ item' = item
                                           /\ tasks' = tasks
    /\ PollMark => (qpc = "got" /\ qpc' = "marked")
    /\ (NewlyProcessing # {}) => (qpc = "got" /\ qpc' = "marked")
    /\ (Len(tasks') > Len(tasks)) => /\ qpc = "marked" /\ qpc' = "wait"
                                     /\ tasks' = Append(tasks, [id |-> item.id, payload |-> item.payload])
                                     /\ queue' = queue
    /\ (qpc = "wait" /\ \A id \in Ids : ~Eligible(queue[id])) =>
           /\ qpc' = "wait"
           /\ item' = item
           /\ ~ENABLED (PollGetNext /\ vars' # vars)
    /\ PollGetNextErr => vars' = vars

\* C25 (state part): between two ticks the poll loop holds no row; during a
\* tick it holds exactly one.
C25_OneRowHeld ==
    /\ (qpc \in {"none", "wait"}) => item = NoItem
    /\ (qpc \in {"got", "marked"}) => item.id \in Ids

\* C25: one poll tick reads at most one row, marks at most one row
\* Processing and submits at most one job; with no eligible row it changes
\* nothing.
C25_OnePerTick == []C25_OneRowHeld /\ [][C25_Steps]_vars

\* C25 witness: a tick is over with two rows eligible when it began: one is
\* Processing with its job in the buffer, the other is still Pending and
\* untouched.
C25_Witness ==
    \E id \in Ids, other \in Ids :
        /\ other # id
        /\ qpc = "wait"
        /\ queue[id].status = QueueStatusProcessing
        /\ queue[id].attempts = 1
        /\ Len(tasks) = 1
        /\ tasks[1].id = id
        /\ queue[other].status = QueueStatusPending
        /\ queue[other].attempts = 0
        /\ queue[other].created_at = queue[id].created_at

C27_CountTracks ==
    /\ GetActiveCount = Cardinality(Active)
    /\ GetActiveCount \in 0..maxWorkers
    /\ (Holding = {}) => GetActiveCount = 0
    /\ (stop = "returned") => GetActiveCount = 0
    /\ Cardinality({w \in WorkerIds : wpc[w] = "run"}) <= GetActiveCount
    /\ GetActiveCount <= Cardinality(Holding)

\* C27 (step part): the counter moves by one, up when a worker enters
\* task() and down when it has left it, and in no other step of a running
\* process.
C27_Steps ==
    /\ \A w \in WorkerIds : WorkerInc(w) => activeCount' = activeCount + 1
    /\ \A w \in WorkerIds : WorkerDec(w) => activeCount' = activeCount - 1
    /\ (proc' = "up" /\ activeCount' # activeCount) =>
           \E w \in WorkerIds : \/ (wpc[w] = "inc" /\ wpc'[w] = "run")
                                \/ (wpc[w] = "dec" /\ wpc'[w] = "recv")

C28_Lifecycle ==
    /\ (proc = "up" /\ \E w \in WorkerIds : wpc[w] # "none") =>
           /\ Cardinality({w \in WorkerIds : wpc[w] # "none"}) = maxWorkers
           /\ wg = Cardinality({w \in WorkerIds : wpc[w] \in {"recv", "inc", "run", "dec"}})
    /\ \A w \in WorkerIds : (wpc[w] = "exited") => (closed /\ tasks = <<>>)
    /\ (stop = "returned") =>
           /\ Cardinality({w \in WorkerIds : wpc[w] = "exited"}) = maxWorkers
           /\ \A w \in WorkerIds : wpc[w] \in {"none", "exited"}
           /\ tasks = <<>>
           /\ Holding = {}
           /\ wg = 0
           /\ closed

\* C28 (step part): Start makes maxWorkers loops, all waiting for a job; a
\* loop that has exited stays so; Stop returns only from the wait that
\* follows its close.
C28_Steps ==
    /\ Start => /\ Cardinality({w \in WorkerIds : wpc'[w] = "recv"}) = maxWorkers
                /\ \A w \in WorkerIds : wpc'[w] \in {"recv", "none"}
                /\ wg' = maxWorkers
    /\ \A w \in WorkerIds : (wpc[w] = "exited" /\ proc' = "up") => wpc'[w] = "exited"
    /\ (stop # "returned" /\ stop' = "returned") => (stop = "waiting" /\ closed)

\* C28 (progress part): once Stop has closed the channel every loop drains
\* and exits and Stop returns, unless the process dies first.
C28_StopReturns == closed ~> (stop = "returned" \/ crashed)

\* C28: Start spawns exactly maxWorkers executor loops, each runs until the
\* job channel is closed and then exits; after Stop has returned no loop
\* runs and no job is buffered or executing.
C28_PoolLifecycle == []C28_Lifecycle /\ [][C28_Steps]_vars /\ C28_StopReturns

\* C28 witness: Stop has returned in the largest pool, whose loops have all
\* exited after draining a buffer that held jobs at the close.
C28_Witness ==
    /\ stop = "returned"
    /\ maxWorkers = MaxPoolWorkers
    /\ \A w \in Spawned : wpc[w] = "exited"
    /\ atStop.buffered >= 2
    /\ executed = accepted

\* C29 (state part): a running manager has its one poll loop, at a position
\* of its tick, and its cleanup loop, and Start finds it running; a manager
\* that was not started has neither loop.
C29_LoopsOfRunning ==
    /\ isRunning <=> qpc \in {"wait", "got", "marked"}
    /\ isRunning => (proc = "up" /\ ENABLED CleanupTick /\ ~ENABLED QMStart)
    /\ ~isRunning => (qpc = "none" /\ item = NoItem /\ ~ENABLED CleanupTick
                      /\ ~ENABLED PollGetNext)

\* C29 (step part): the step in which Start sets isRunning runs the recovery
\* once (or logs its error and changes no row) and leaves the poll loop at
\* the wait for its first tick; no other step resets a row to Pending or
\* starts a loop; Start on a running manager changes nothing.
C29_Steps ==
    /\ (~isRunning /\ isRunning') =>
           /\ qpc = "none" /\ qpc' = "wait"
           /\ item' = NoItem
           /\ queue' \in {queue,
                          [i \in Ids |-> IF queue[i].status = QueueStatusProcessing
                                            /\ queue[i].updated_at < now - StuckUnits
                                         THEN [queue[i] EXCEPT !.status = QueueStatusPending]
                                         ELSE queue[i]]}
           /\ tasks' = tasks
    /\ (qpc = "none" /\ qpc' # "none") => (~isRunning /\ isRunning')
    /\ (\E id \in Ids : /\ id \in DOMAIN queue'
                        /\ queue[id].status = QueueStatusProcessing
                        /\ queue'[id].status = QueueStatusPending)
           => (~isRunning /\ isRunning')
    /\ (isRunning /\ isRunning') => qpc' # "none"
    /\ QMStartWhileRunning => vars' = vars

\* C29: QueueManager.Start runs the recovery once, before the first poll
\* tick, and starts one poll loop and one cleanup loop; Start on a manager
\* that is running does nothing.
C29_StartOnce == []C29_LoopsOfRunning /\ [][C29_Steps]_vars

\* C29 witness: in a running manager a handler has been running for more
\* than 30 minutes, so that a second recovery would reset its row.
C29_Witness ==
    \E id \in Ids, w \in WorkerIds :
        /\ isRunning
        /\ qpc = "wait"
        /\ wpc[w] = "run"
        /\ wjob[w].id = id
        /\ queue[id].status = QueueStatusProcessing
        /\ queue[id].updated_at < now - StuckUnits
        /\ crashed

\* the handler invocations of row id that have not returned yet
InHandler(id) == Cardinality({w \in WorkerIds : wpc[w] = "run" /\ wjob[w].id = id})

\* C30 (state part): for a row of a registered type every handler invocation
\* that has returned wrote one outcome: the invocations are the Failed
\* outcomes written, plus one if the row is Completed, plus the invocation
\* under way; a Completed row stems from an invocation.
C30_OneOutcomeEach ==
    \A id \in Ids :
        queue[id].type \in handlers =>
            /\ hist[id].invoked
                  = hist[id].toFailed
                    + (IF queue[id].status = QueueStatusCompleted THEN 1 ELSE 0)
                    + InHandler(id)
            /\ (queue[id].status = QueueStatusFailed) => hist[id].toFailed >= 1

\* C30 (step part): when a handler returns nil its row becomes Completed and
\* no row becomes Failed; when it returns an error its row becomes Failed
\* and no row becomes Completed; either way one row is written, the row of
\* the job, once; and a row of a registered type becomes Completed or Failed
\* in no other step.
C30_Steps ==
    /\ \A w \in WorkerIds :
          /\ JobCompleted(w) =>
                /\ queue'[wjob[w].id].status = QueueStatusCompleted
                /\ queue'[wjob[w].id].processed_at = now
                /\ \A id \in Ids : hist'[id].toFailed = hist[id].toFailed
                /\ \A id \in Ids \ {wjob[w].id} : queue'[id] = queue[id]
                /\ wpc'[w] = "dec"
          /\ JobFailed(w) =>
                /\ queue'[wjob[w].id].status = QueueStatusFailed
                /\ queue'[wjob[w].id].processed_at = queue[wjob[w].id].processed_at
                /\ hist'[wjob[w].id].toFailed = hist[wjob[w].id].toFailed + 1
                /\ \A id \in Ids \ {wjob[w].id} : queue'[id] = queue[id]
                /\ wpc'[w] = "dec"
    /\ \A id \in Ids :
          (/\ queue[id].type \in handlers
           /\ queue'[id].status # queue[id].status
           /\ queue'[id].status \in {QueueStatusCompleted, QueueStatusFailed}) =>
              /\ queue[id].status = QueueStatusProcessing
              /\ \E w \in WorkerIds : /\ wpc[w] = "run" /\ wpc'[w] = "dec"
                                      /\ wjob[w].id = id
                                      /\ \A v \in WorkerIds \ {w} : wpc'[v] = wpc[v]

\* C30: the dispatcher writes the outcome of a task from the handler's
\* result only: Completed on success, Failed on error, one write per
\* handler invocation.
C30_OutcomeFromResult == []C30_OneOutcomeEach /\ [][C30_Steps]_vars

\* C30 witness: of two rows of a registered type one is Completed after a
\* single invocation that succeeded, the other Failed after a single
\* invocation that returned an error.
C30_Witness ==
    \E id \in Ids, other \in Ids :
        /\ queue[id].type \in handlers
        /\ queue[other].type \in handlers
        /\ queue[id].status = QueueStatusCompleted
        /\ hist[id].invoked = 1
        /\ hist[id].toFailed = 0
        /\ queue[other].status = QueueStatusFailed
        /\ hist[other].invoked = 1
        /\ hist[other].toFailed = 1

\* C31: in one process that is never killed, every row of a registered type
\* that is Processing eventually is Completed or Failed, also when the write
\* that records the outcome of its handler returns an error.
C31_LeavesProcessing ==
    \A id \in TaskIds :
        (id \in Ids /\ queue[id].type \in handlers /\ queue[id].status = QueueStatusProcessing)
            ~> (id \in Ids /\ queue[id].status \in {QueueStatusCompleted, QueueStatusFailed})

\* C32: an upload job that runs on a pool worker, submits its children to the
\* same pool and waits for them always finishes, whatever maxWorkers >= 1 and
\* however many such jobs run at once, given that every child returns.
C32_UploadFinishes ==
    \A w \in WorkerIds : InUpload(w) ~> (wpc[w] = "dec")

\* C33: the poll loop has exited when QueueManager.Stop has returned and no
\* row is claimed while the manager is stopped; a manager that is started
\* again after Stop has a poll loop that polls, and stopping it again raises
\* no fault.
C33_StopStartStop ==
    /\ [](fault # "close_of_closed")
    /\ [](isRunning => qpc \in {"wait", "got", "marked"})
    /\ [][(~isRunning /\ qpc = "stopped" /\ ~isRunning') =>
              \A id \in Ids : queue'[id].status = QueueStatusProcessing
                                  => queue[id].status = QueueStatusProcessing]_vars

\* C34: with one dispatcher on the pool and no crash, the rows with status
\* Processing never number more than 100 + maxWorkers + 1: the buffered
\* jobs, the jobs the workers run and the row the poll loop holds.
C34_ProcessingBounded ==
    Cardinality({i \in Ids : queue[i].status = QueueStatusProcessing})
        <= BufferCap + maxWorkers + 1

\* C35: RunParallelTasks, called from outside a started pool, returns only
\* after every task of the list has been executed exactly once, and the i-th
\* element of the slice it returns is what the i-th task returned, whatever
\* the length of the list and the order in which the tasks complete.
C35_EveryTaskOnceInPlace ==
    /\ \A k \in 1..rpt.n : rpt.ran[k] <= 1
    /\ rpt.pc = "returned" =>
          \A k \in 1..rpt.n : rpt.ran[k] = 1 /\ rpt.errors[k] = TaskResult(k)
\* a list longer than the buffer and the workers together has been run to
\* its return
C35_Witness ==
    /\ rpt.pc = "returned"
    /\ rpt.n > BufferCap + maxWorkers

\* C36: type, payload, max_attempts and created_at of a row never change
\* once AddToQueue has inserted it; a status operation changes the one row
\* it names (recovery: the stuck rows it matches, and only their status).
C36_Changed == {id \in Ids \cap DOMAIN queue' : queue'[id] # queue[id]}
C36_Steps ==
    /\ \A id \in Ids \cap DOMAIN queue' :
          /\ queue'[id].type = queue[id].type
          /\ queue'[id].payload = queue[id].payload
          /\ queue'[id].max_attempts = queue[id].max_attempts
          /\ queue'[id].created_at = queue[id].created_at
    /\ \/ Cardinality(C36_Changed) <= 1
       \/ \A id \in C36_Changed :
             /\ Stuck(queue[id])
             /\ queue'[id] = [queue[id] EXCEPT !.status = QueueStatusPending]
C36_InsertedFieldsKept == [][C36_Steps]_vars
\* a row that has been claimed twice, failed and completed stands next to a
\* row of other type and max_attempts that no operation has touched
C36_Witness ==
    \E i \in Ids, j \in Ids :
        /\ queue[i].status = QueueStatusCompleted
        /\ queue[i].attempts = 2
        /\ queue[i].updated_at > queue[i].created_at
        /\ queue[j].status = QueueStatusPending
        /\ queue[j].attempts = 0
        /\ queue[j].updated_at = queue[j].created_at
        /\ queue[j].type # queue[i].type
        /\ queue[j].max_attempts # queue[i].max_attempts

\* C37: GetNextQueueItem is a read: the step in which the poll loop obtains
\* a row from it changes no row and no other state, the row it returns is an
\* eligible one with the least created_at, and the same rows are the
\* candidates of the next call, the returned one among them.
C37_Steps ==
    (qpc = "wait" /\ qpc' = "got") =>
        /\ queue' = queue
        /\ nextId' = nextId
        /\ hist' = hist
        /\ tasks' = tasks
        /\ item'.id \in NextCandidates
        /\ item'.payload = queue[item'.id].payload
        /\ item'.type = queue[item'.id].type
        /\ NextCandidates' = NextCandidates
        /\ (\A j \in NextCandidates \ {item'.id} :
               queue[j].created_at = queue[item'.id].created_at)
C38_Steps ==
    Len(web'.uploads) > Len(web.uploads) =>
        \A u \in 1..Len(web.uploads) : web.uploads[u] = StatusFailed
C38_OneUploadAtATime == [][C38_Steps]_vars

\* C39: attempts of a row counts the successful MarkQueueItemProcessing
\* calls for it: it goes up by one in each such call and changes in no other
\* step, so it never decreases and no other operation resets it; in a
\* process that has not been killed, for a row of a registered type, it
\* equals the jobs handed to the pool for the row, plus the claim under way.
JobsSubmitted(id) ==
    hist[id].invoked
    + Cardinality({i \in 1..Len(tasks) : tasks[i].id = id})
    + Cardinality({w \in WorkerIds : wpc[w] = "inc" /\ wjob[w].id = id})
C39_AttemptsAreJobs ==
    \A id \in Ids :
        (~crashed /\ queue[id].type \in handlers) =>
            queue[id].attempts =
                JobsSubmitted(id) + (IF qpc = "marked" /\ item.id = id THEN 1 ELSE 0)
C39_Steps ==
    /\ \A id \in Ids \cap DOMAIN queue' :
          /\ queue'[id].attempts >= queue[id].attempts
          /\ queue'[id].attempts # queue[id].attempts =>
                /\ queue'[id].attempts = queue[id].attempts + 1
                /\ qpc = "got" /\ qpc' = "marked" /\ item.id = id
    /\ (qpc = "got" /\ qpc' = "marked") =>
          queue'[item.id].attempts = queue[item.id].attempts + 1
====
